---------------------------- MODULE Spec2Model ----------------------------
(***************************************************************************)
(* django-typomatic: the registry of serializers (ts_interface, ts_field)  *)
(* and the generation of TypeScript text from it (generate_ts, get_ts).    *)
(*                                                                         *)
(* Python str values are sequences of one-character strings, so that       *)
(* formatting, replace(), upper(), title(), sorted() and text equality are *)
(* computed character by character as the code computes them.  Python      *)
(* dicts are association lists <<key, value>> in insertion order.          *)
(***************************************************************************)
EXTENDS Integers, Sequences, FiniteSets, TLC

(* ------------------------------ bounds -------------------------------- *)

\* the most classes that ts_interface is applied to
MaxRegs == 2

\* the most entries that ts_field calls add to the dicts of __field_mappings
MaxMappings == 1

(* --------------------------- Python str ------------------------------- *)

\* the printable ASCII characters, code 32 (space) to 126 (~), in code order;
\* "GRAVE" stands for the grave accent (code 96), which a TLA+ string cannot hold
Ascii ==
    << " ", "!", "\"", "#", "$", "%", "&", "'", "(", ")", "*", "+", ",", "-",
       ".", "/", "0", "1", "2", "3", "4", "5", "6", "7", "8", "9", ":", ";",
       "<", "=", ">", "?", "@", "A", "B", "C", "D", "E", "F", "G", "H", "I",
       "J", "K", "L", "M", "N", "O", "P", "Q", "R", "S", "T", "U", "V", "W",
       "X", "Y", "Z", "[", "\\", "]", "^", "_", "GRAVE", "a", "b", "c", "d", "e",
       "f", "g", "h", "i", "j", "k", "l", "m", "n", "o", "p", "q", "r", "s",
       "t", "u", "v", "w", "x", "y", "z", "{", "|", "}", "~" >>

\* ord(c): the code point of a character (newline is 10)
OrdTable ==
    [c \in {Ascii[i] : i \in 1..Len(Ascii)} \cup {"\n"} |->
        IF c = "\n" THEN 10 ELSE 31 + CHOOSE i \in 1..Len(Ascii) : Ascii[i] = c]

Ord(c) == OrdTable[c]

Chr(n) == Ascii[n - 31]

IsDigit(c) == Ord(c) \in 48..57

IsUpper(c) == Ord(c) \in 65..90

IsLower(c) == Ord(c) \in 97..122

IsAlpha(c) == IsUpper(c) \/ IsLower(c)

UpperChar(c) == IF IsLower(c) THEN Chr(Ord(c) - 32) ELSE c

LowerChar(c) == IF IsUpper(c) THEN Chr(Ord(c) + 32) ELSE c

\* str.upper()
Upper(s) == [i \in 1..Len(s) |-> UpperChar(s[i])]

\* str.title(): a letter that follows a letter is lowered, any other letter is raised
Title(s) ==
    [i \in 1..Len(s) |->
        IF i > 1 /\ IsAlpha(s[i - 1]) THEN LowerChar(s[i]) ELSE UpperChar(s[i])]

\* s.startswith(p)
StartsWith(s, p) == Len(p) <= Len(s) /\ SubSeq(s, 1, Len(p)) = p

\* s.endswith(p)
EndsWith(s, p) == Len(p) <= Len(s) /\ SubSeq(s, Len(s) - Len(p) + 1, Len(s)) = p

\* p occurs in s at position i
OccursAt(s, p, i) == i + Len(p) - 1 <= Len(s) /\ SubSeq(s, i, i + Len(p) - 1) = p

\* p in s
Contains(s, p) == \E i \in 1..(Len(s) + 1) : OccursAt(s, p, i)

\* s.count(p) for a non-empty p (non-overlapping occurrences from the left)
RECURSIVE CountFrom(_, _, _)
CountFrom(s, p, i) ==
    IF i + Len(p) - 1 > Len(s) THEN 0
    ELSE IF OccursAt(s, p, i) THEN 1 + CountFrom(s, p, i + Len(p))
    ELSE CountFrom(s, p, i + 1)

Count(s, p) == CountFrom(s, p, 1)

\* s.replace(old, new) for a non-empty old
RECURSIVE ReplaceFrom(_, _, _, _)
ReplaceFrom(s, old, new, i) ==
    IF i > Len(s) THEN << >>
    ELSE IF OccursAt(s, old, i) THEN new \o ReplaceFrom(s, old, new, i + Len(old))
    ELSE << s[i] >> \o ReplaceFrom(s, old, new, i + 1)

Replace(s, old, new) == ReplaceFrom(s, old, new, 1)

\* s.split(c) for a one-character separator
RECURSIVE SplitFrom(_, _, _, _)
SplitFrom(s, c, i, cur) ==
    IF i > Len(s) THEN << cur >>
    ELSE IF s[i] = c THEN << cur >> \o SplitFrom(s, c, i + 1, << >>)
    ELSE SplitFrom(s, c, i + 1, Append(cur, s[i]))

Split(s, c) == SplitFrom(s, c, 1, << >>)

\* sep.join(parts)
RECURSIVE Join(_, _)
Join(parts, sep) ==
    IF Len(parts) = 0 THEN << >>
    ELSE IF Len(parts) = 1 THEN parts[1]
    ELSE parts[1] \o sep \o Join(Tail(parts), sep)

\* ''.join(parts)
Concat(parts) == Join(parts, << >>)

\* str(n) for an int n >= 0
RECURSIVE IntToStr(_)
IntToStr(n) ==
    IF n < 10 THEN << Chr(48 + n) >>
    ELSE IntToStr(n \div 10) \o << Chr(48 + (n % 10)) >>

\* s < t for str: by code point at the first place d where they differ, a
\* proper prefix first
StrLess(s, t) ==
    LET d == CHOOSE i \in 1..(Len(s) + 1) :
                 /\ i > Len(s) \/ i > Len(t) \/ s[i] # t[i]
                 /\ \A j \in 1..(i - 1) : j <= Len(t) /\ s[j] = t[j]
    IN  IF d > Len(s) THEN Len(s) < Len(t)
        ELSE d <= Len(t) /\ Ord(s[d]) < Ord(t[d])

\* sorted(S) for a set of str: each element at the place that the number of
\* the elements less than it gives
SortedStrs(S) ==
    LET before == [x \in S |-> Cardinality({y \in S : StrLess(y, x)})]
    IN  [k \in 1..Cardinality(S) |-> CHOOSE x \in S : before[x] = k - 1]

\* list(dict.fromkeys(xs)): the first occurrence of each element, in order
RECURSIVE DictFromKeys(_)
DictFromKeys(xs) ==
    IF Len(xs) = 0 THEN << >>
    ELSE LET rest == DictFromKeys(SubSeq(xs, 1, Len(xs) - 1))
         IN  IF \E i \in 1..Len(rest) : rest[i] = xs[Len(xs)]
             THEN rest ELSE Append(rest, xs[Len(xs)])

(* --------------------------- Python dict ------------------------------ *)

\* k in d
Has(d, k) == \E i \in 1..Len(d) : d[i][1] = k

\* d[k]
Get(d, k) == d[CHOOSE i \in 1..Len(d) : d[i][1] = k][2]

\* d.get(k, default)
GetOr(d, k, default) == IF Has(d, k) THEN Get(d, k) ELSE default

\* d[k] = v: a present key keeps its position, a new key goes last
Put(d, k, v) ==
    IF Has(d, k) THEN [i \in 1..Len(d) |-> IF d[i][1] = k THEN << k, v >> ELSE d[i]]
    ELSE Append(d, << k, v >>)

\* list(d.keys())
Keys(d) == [i \in 1..Len(d) |-> d[i][1]]

(* ----------------------- string literals of the code ------------------ *)

s_Serializer == <<"S", "e", "r", "i", "a", "l", "i", "z", "e", "r">>

s_any == <<"a", "n", "y">>

s_bar == <<" ", "|", " ">>

s_dq == <<"\"">>

s_sq == <<"'">>

s_esc_sq == <<"\\", "'">>

s_space == <<" ">>

s_underscore == <<"_">>

s_export_enum == <<"e", "x", "p", "o", "r", "t", " ", "e", "n", "u", "m", " ">>

s_open == <<" ", "{", "\n">>

s_indent == <<" ", " ", " ", " ">>

s_eq == <<" ", "=", " ">>

s_comma_nl == <<",", "\n">>

s_close == <<"}", "\n">>

s_let == <<"l", "e", "t", " ">>

s_eq_any == <<" ", "=", " ", "a", "n", "y", ";">>

s_ChoiceEnum == <<"C", "h", "o", "i", "c", "e", "E", "n", "u", "m">>

s_Values == <<"V", "a", "l", "u", "e", "s">>

s_Keys == <<"K", "e", "y", "s">>

s_number == <<"n", "u", "m", "b", "e", "r">>

s_string == <<"s", "t", "r", "i", "n", "g">>

s_boolean == <<"b", "o", "o", "l", "e", "a", "n">>

s_File == <<"F", "i", "l", "e">>

s_null == <<"n", "u", "l", "l">>

s_list == <<"[", "]">>

s_opt == <<"?">>

s_or_null == <<" ", "|", " ", "n", "u", "l", "l">>

s_export == <<"e", "x", "p", "o", "r", "t", " ">>

s_interface == <<"i", "n", "t", "e", "r", "f", "a", "c", "e", " ">>

s_colon == <<":", " ">>

s_semi == <<";">>

s_nl == <<"\n">>

s_close2 == <<"}", "\n", "\n">>

s_import == <<"i", "m", "p", "o", "r", "t", " ", "t", "y", "p", "e", " ", "{", " ">>

s_from == <<" ", "}", " ", "f", "r", "o", "m", " ", "'", ".", ".", "/">>

s_import_end == <<"'", ";", "\n">>

s_comma == <<",", " ">>

s_dot_serializers == <<".", "s", "e", "r", "i", "a", "l", "i", "z", "e", "r", "s">>

s_get_ == <<"g", "e", "t", "_">>

\* spec_chars of __get_choices_escape_spec_chars
spec_chars ==
    { "~", ":", "+", "[", "\\", "@", "^", "{", "%", "(", "-", "\"", "*", "|", ",", "&",
      "<", "GRAVE", "}", ".", "=", "]", "!", ">", ";", "?", "#", "$", ")", "/" }

\* the element of spec_chars that the iteration of the set yields first (the
\* order of a set of str is fixed by the process's hash seed)
spec_chars_first == "~"

(* ------------------------- values of the program ---------------------- *)

\* a choice key or label: a str (t = "str", s) or an int (t = "int", n)
StrVal(s) == [t |-> "str", s |-> s, n |-> 0]

IntVal(n) == [t |-> "int", s |-> << >>, n |-> n]

\* str(v), f"{v}"
PyStr(v) == IF v.t = "str" THEN v.s ELSE IntToStr(v.n)

\* an optional str result: None, or a str; err when the call raised
None == [some |-> FALSE, s |-> << >>, err |-> FALSE]

Some(s) == [some |-> TRUE, s |-> s, err |-> FALSE]

Raised == [some |-> FALSE, s |-> << >>, err |-> TRUE]

\* the options of generate_ts / get_ts
Options(trim, camelize, ec, ev, ek) ==
    [trim_serializer_output |-> trim, camelize |-> camelize,
     enum_choices |-> ec, enum_values |-> ev, enum_keys |-> ek]

(* ------------------------------ enums --------------------------------- *)

get_trimmed_name(name, trim_serializer_output) ==
    IF trim_serializer_output /\ EndsWith(name, s_Serializer)
    THEN SubSeq(name, 1, Len(name) - Len(s_Serializer)) ELSE name

\* ''.join(x.title() for x in field_name.split('_'))
TitleName(field_name) ==
    LET parts == Split(field_name, "_")
    IN  Concat([i \in 1..Len(parts) |-> Title(parts[i])])

map_choices_to_union(field_name, choices) ==
    IF Len(choices) = 0 THEN s_any
    ELSE Join([i \in 1..Len(choices) |->
                 IF choices[i][1].t = "str"
                 THEN s_dq \o choices[i][1].s \o s_dq
                 ELSE PyStr(choices[i][1])], s_bar)

\* any(type(v) == str and (char in v or v[0].isdigit()) for char in spec_chars for v in vs):
\* "True", "False", or "raise" (v[0] of an empty str).  The scan for the first
\* char decides unless every test of it is False.
AnySpecial(vs) ==
    LET Hit(v, c) == v.t = "str" /\ Len(v.s) > 0
                     /\ (c \in {v.s[i] : i \in 1..Len(v.s)} \/ IsDigit(v.s[1]))
        Empty(v) == v.t = "str" /\ Len(v.s) = 0
        Stop(i)  == Empty(vs[i]) \/ Hit(vs[i], spec_chars_first)
    IN  IF \E i \in 1..Len(vs) : Stop(i)
        THEN LET i == CHOOSE j \in 1..Len(vs) : Stop(j) /\ \A k \in 1..(j - 1) : ~Stop(k)
             IN  IF Empty(vs[i]) THEN "raise" ELSE "True"
        ELSE IF \E c \in spec_chars : \E i \in 1..Len(vs) : Hit(vs[i], c)
        THEN "True" ELSE "False"

\* the scan of the keys taken for the labels too
escape_keys_for_both(choices) ==
    LET key_string == AnySpecial([i \in 1..Len(choices) |-> choices[i][1]])
    IN  [key_string   |-> key_string = "True",
         value_string |-> key_string = "True",
         err          |-> key_string = "raise"]

get_choices_escape_spec_chars(choices) ==
    LET key_string   == AnySpecial([i \in 1..Len(choices) |-> choices[i][1]])
        value_string == AnySpecial([i \in 1..Len(choices) |-> choices[i][2]])
    IN  [key_string   |-> key_string = "True",
         value_string |-> value_string = "True",
         err          |-> key_string = "raise" \/ value_string = "raise"]

\* value.replace("'", "\\'") for a str, the value as it is otherwise
EscapeQuote(v) == IF v.t = "str" THEN StrVal(Replace(v.s, s_sq, s_esc_sq)) ELSE v

\* str(x).replace(' ', '_'): upper() left out
name_case_kept(v) == Replace(PyStr(v), s_space, s_underscore)

\* str(x).upper().replace(' ', '_')
UpperName(v) == Replace(Upper(PyStr(v)), s_space, s_underscore)

map_choices_to_enum(enum_name, choices) ==
    IF Len(choices) = 0 THEN Some(s_let \o enum_name \o s_eq_any)
    ELSE
    LET esc == get_choices_escape_spec_chars(choices)
        Line(i) ==
            LET value == EscapeQuote(choices[i][2])
                key   == EscapeQuote(choices[i][1])
            IN  IF key.t = "str" /\ esc.key_string
                THEN s_indent \o s_sq \o UpperName(key) \o s_sq \o s_eq
                     \o s_sq \o PyStr(key) \o s_sq \o s_comma_nl
                ELSE IF key.t = "str" /\ ~esc.key_string
                THEN s_indent \o UpperName(key) \o s_eq
                     \o s_sq \o PyStr(key) \o s_sq \o s_comma_nl
                ELSE IF esc.value_string /\ esc.key_string /\ key.t = "str"
                THEN s_indent \o s_sq \o UpperName(value) \o s_sq \o s_eq
                     \o s_sq \o PyStr(key) \o s_sq \o s_comma_nl
                ELSE IF esc.value_string
                THEN s_indent \o s_sq \o UpperName(value) \o s_sq \o s_eq
                     \o PyStr(key) \o s_comma_nl
                ELSE s_indent \o UpperName(value) \o s_eq \o PyStr(key) \o s_comma_nl
    IN  IF esc.err THEN Raised
        ELSE Some(s_export_enum \o enum_name \o s_open
                  \o Concat([i \in 1..Len(choices) |-> Line(i)]) \o s_close)

\* str(key).replace(' ', '_')
PlainName(v) == Replace(PyStr(v), s_space, s_underscore)

map_choices_to_enum_values(enum_name, choices) ==
    IF Len(choices) = 0 THEN Some(s_let \o enum_name \o s_eq_any)
    ELSE
    LET esc == get_choices_escape_spec_chars(choices)
        Line(i) ==
            LET value == EscapeQuote(choices[i][2])
                \* key.replace("'", "\'"): the replacement is the apostrophe itself
                key   == IF choices[i][1].t = "str"
                         THEN StrVal(Replace(choices[i][1].s, s_sq, s_sq))
                         ELSE choices[i][1]
            IN  IF key.t = "str" /\ esc.key_string
                THEN s_indent \o s_sq \o PlainName(key) \o s_sq \o s_eq
                     \o s_sq \o PyStr(value) \o s_sq \o s_comma_nl
                ELSE s_indent \o PlainName(key) \o s_eq
                     \o s_sq \o PyStr(value) \o s_sq \o s_comma_nl
    IN  IF esc.err THEN Raised
        \* a key that is no str: "Number enums not need it", return None
        ELSE IF \E i \in 1..Len(choices) : choices[i][1].t # "str" THEN None
        ELSE Some(s_export_enum \o enum_name \o s_open
                  \o Concat([i \in 1..Len(choices) |-> Line(i)]) \o s_close)

map_choices_to_enum_keys_by_values(enum_name, choices) ==
    IF Len(choices) = 0 THEN Some(s_let \o enum_name \o s_eq_any)
    ELSE
    LET esc == get_choices_escape_spec_chars(choices)
        Line(i) ==
            LET value == EscapeQuote(choices[i][2])
                key   == EscapeQuote(choices[i][1])
            IN  IF key.t = "str" /\ esc.value_string
                THEN s_indent \o s_sq \o UpperName(value) \o s_sq \o s_eq
                     \o s_sq \o PyStr(key) \o s_sq \o s_comma_nl
                ELSE IF esc.value_string
                THEN s_indent \o s_sq \o UpperName(value) \o s_sq \o s_eq
                     \o PyStr(key) \o s_comma_nl
                ELSE IF key.t = "str"
                THEN s_indent \o UpperName(value) \o s_eq
                     \o s_sq \o PyStr(key) \o s_sq \o s_comma_nl
                ELSE s_indent \o UpperName(value) \o s_eq \o PyStr(key) \o s_comma_nl
    IN  IF esc.err THEN Raised
        ELSE Some(s_export_enum \o enum_name \o s_open
                  \o Concat([i \in 1..Len(choices) |-> Line(i)]) \o s_close)

\* the three enums of a choice set: ts_enum, ts_enum_value, ts_enum_key
process_choice_field(field_name, choices, enum_choices, enum_values, enum_keys) ==
    LET ts_type == TitleName(field_name) \o s_ChoiceEnum
    IN  [ts_enum       |-> IF enum_choices
                           THEN map_choices_to_enum(ts_type, choices) ELSE None,
         ts_enum_value |-> IF enum_values
                           THEN map_choices_to_enum_values(ts_type \o s_Values, choices)
                           ELSE None,
         ts_enum_key   |-> IF enum_keys
                           THEN map_choices_to_enum_keys_by_values(ts_type \o s_Keys, choices)
                           ELSE None]

(* ----------------------------- mappings ------------------------------- *)

\* mappings of mappings.py: field class -> TS type ("fields." are the model
\* fields of django.db.models, "serializers." the fields of rest_framework)
mappings ==
    << << "fields.AutoField", s_number >>, << "fields.BigAutoField", s_number >>,
       << "fields.BigIntegerField", s_number >>, << "fields.BinaryField", s_string >>,
       << "fields.BooleanField", s_boolean >>, << "fields.CharField", s_string >>,
       << "fields.CommaSeparatedIntegerField", s_string >>, << "fields.DateField", s_string >>,
       << "fields.DateTimeField", s_string >>, << "fields.DecimalField", s_number >>,
       << "fields.DurationField", s_string >>, << "fields.EmailField", s_string >>,
       << "fields.FilePathField", s_string >>, << "fields.FloatField", s_number >>,
       << "fields.GenericIPAddressField", s_string >>, << "fields.IPAddressField", s_string >>,
       << "fields.IntegerField", s_number >>, << "fields.PositiveIntegerField", s_number >>,
       << "fields.PositiveSmallIntegerField", s_number >>, << "fields.SlugField", s_string >>,
       << "fields.SmallAutoField", s_number >>, << "fields.SmallIntegerField", s_number >>,
       << "fields.TextField", s_string >>, << "fields.TimeField", s_string >>,
       << "fields.URLField", s_string >>, << "fields.UUIDField", s_string >>,
       << "serializers.BooleanField", s_boolean >>, << "serializers.CharField", s_string >>,
       << "serializers.EmailField", s_string >>, << "serializers.RegexField", s_string >>,
       << "serializers.SlugField", s_string >>, << "serializers.URLField", s_string >>,
       << "serializers.DictField", s_string >>, << "serializers.UUIDField", s_string >>,
       << "serializers.FilePathField", s_string >>, << "serializers.FileField", s_File >>,
       << "serializers.ImageField", s_File >>, << "serializers.IPAddressField", s_string >>,
       << "serializers.IntegerField", s_number >>, << "serializers.FloatField", s_number >>,
       << "serializers.DecimalField", s_number >>, << "serializers.DateTimeField", s_string >>,
       << "serializers.DateField", s_string >>, << "serializers.TimeField", s_string >>,
       << "serializers.DurationField", s_string >>, << "fields.PositiveBigIntegerField", s_number >> >>

\* mappings as a function of the key, for mappings.get
mappings_by_key ==
    [k \in {mappings[i][1] : i \in 1..Len(mappings)} |-> Get(mappings, k)]

\* primitives_mapping of mappings.py; the key None is the value None
primitives_mapping ==
    << << "str", s_string >>, << "int", s_number >>, << "float", s_number >>,
       << "bool", s_boolean >>, << "dict", s_string >>, << "None", s_null >> >>

(* ------------------------ classes and fields -------------------------- *)

\* an attribute that the object does not have
NoAttr == ""

\* a serializer field instance: cls is type(field); pk is isinstance(field,
\* PrimaryKeyRelatedField) and queryset the primary keys met from
\* queryset.model._meta.pk on (empty: no queryset); child and child_relation
\* are type(field.child) and type(field.child_relation); has_choices is
\* hasattr(field, 'choice_strings_to_values'); method_name is empty when None
Field(name, cls) ==
    [name |-> name, cls |-> cls, pk |-> FALSE, queryset |-> << >>,
     child |-> NoAttr, child_relation |-> NoAttr,
     has_choices |-> FALSE, choices |-> << >>, method_name |-> << >>,
     read_only |-> FALSE, required |-> TRUE, allow_null |-> FALSE]

\* a return annotation as get_type_hints gives it: none, a class, a typing
\* generic (it has __origin__), or a list object such as [int, str]
RNone == [k |-> "none", id |-> "", args |-> << >>]

RClass(id) == [k |-> "class", id |-> id, args |-> << >>]

RGeneric(origin, args) == [k |-> "generic", id |-> origin, args |-> args]

RList(items) == [k |-> "list", id |-> "", args |-> items]

\* an accessor of a serializer class, with its return annotation
Method(name, ret) == << name, [ret |-> ret] >>

\* a serializer class: __name__, __module__, _declared_fields and the accessors
SerializerClass(name, module, fields, methods) ==
    [name |-> name, module |-> module, fields |-> fields, methods |-> methods]

(* ------------------------- the classes at hand ------------------------ *)

\* the contexts that calls name
ctx_a == << "a" >>

ctx_b == << "b" >>

Contexts == {ctx_a, ctx_b}

s_Date == << "D", "a", "t", "e" >>

\* the subclasses of serializers.Field other than the serializers: the fields
\* of rest_framework that the classes below use, and a field of the project
FieldClasses ==
    { "serializers.CharField", "serializers.IntegerField", "serializers.ListField",
      "serializers.ChoiceField", "serializers.MultipleChoiceField",
      "serializers.PrimaryKeyRelatedField", "serializers.ManyRelatedField",
      "serializers.SerializerMethodField", "StampField" }

\* the Choices classes (django.db.models.enums), with their .choices
ActionType ==
    << << StrVal(<< "o", "n" >>), StrVal(<< "O", "n" >>) >>,
       << StrVal(<< "o", "f", "f" >>), StrVal(<< "O", "f", "f" >>) >> >>

NumberType ==
    << << IntVal(1), StrVal(<< "L", "o", "w" >>) >>,
       << IntVal(2), StrVal(<< "H", "i", "g", "h" >>) >> >>

ChoicesClasses == << << "ActionType", ActionType >>, << "NumberType", NumberType >> >>

\* class InnerSerializer(serializers.Serializer), in module lib:
\*     text = serializers.CharField(allow_null=True)
InnerSerializer ==
    SerializerClass(
        << "I", "n", "n", "e", "r", "S", "e", "r", "i", "a", "l", "i", "z", "e", "r" >>,
        << "l", "i", "b" >>,
        << [Field(<< "t", "e", "x", "t" >>, "serializers.CharField") EXCEPT !.allow_null =
               TRUE] >>,
        << >>)

\* class LocalSerializer(serializers.Serializer), in module a.serializers:
\*     n = serializers.IntegerField()
LocalSerializer ==
    SerializerClass(
        << "L", "o", "c", "a", "l", "S", "e", "r", "i", "a", "l", "i", "z", "e", "r" >>,
        << "a", ".", "s", "e", "r", "i", "a", "l", "i", "z", "e", "r", "s" >>,
        << Field(<< "n" >>, "serializers.IntegerField") >>,
        << >>)

\* class Outer(serializers.Serializer), in module lib:
\*     inner = InnerSerializer()
\*     made = serializers.SerializerMethodField()
\*     local = serializers.SerializerMethodField()
\*     def get_made(self, obj) -> InnerSerializer
\*     def get_local(self, obj) -> LocalSerializer
Outer ==
    SerializerClass(
        << "O", "u", "t", "e", "r" >>,
        << "l", "i", "b" >>,
        << Field(<< "i", "n", "n", "e", "r" >>, "InnerSerializer"),
           [Field(<< "m", "a", "d", "e" >>, "serializers.SerializerMethodField") EXCEPT
               !.read_only = TRUE],
           [Field(<< "l", "o", "c", "a", "l" >>, "serializers.SerializerMethodField") EXCEPT
               !.read_only = TRUE] >>,
        << Method(<< "g", "e", "t", "_", "m", "a", "d", "e" >>, RClass("InnerSerializer")),
           Method(<< "g", "e", "t", "_", "l", "o", "c", "a", "l" >>,
               RClass("LocalSerializer")) >>)

\* a process whose serializers refer to each other
LifecycleClasses == {"InnerSerializer", "LocalSerializer", "Outer"}

\* class Ticket(serializers.Serializer), in module lib:
\*     action = serializers.ChoiceField(choices=ActionType.choices)
\*     level = serializers.ChoiceField(choices=NumberType.choices, required=False)
\*     last_action = serializers.SerializerMethodField()
\*     rank = serializers.SerializerMethodField()
\*     def get_last_action(self, obj) -> ActionType
\*     def get_rank(self, obj) -> NumberType
Ticket ==
    SerializerClass(
        << "T", "i", "c", "k", "e", "t" >>,
        << "l", "i", "b" >>,
        << [Field(<< "a", "c", "t", "i", "o", "n" >>, "serializers.ChoiceField") EXCEPT
               !.has_choices = TRUE, !.choices = ActionType],
           [Field(<< "l", "e", "v", "e", "l" >>, "serializers.ChoiceField") EXCEPT
               !.has_choices = TRUE, !.choices = NumberType, !.required = FALSE],
           [Field(<< "l", "a", "s", "t", "_", "a", "c", "t", "i", "o", "n" >>,
               "serializers.SerializerMethodField") EXCEPT !.read_only = TRUE],
           [Field(<< "r", "a", "n", "k" >>, "serializers.SerializerMethodField") EXCEPT
               !.read_only = TRUE] >>,
        << Method(<< "g", "e", "t", "_", "l", "a", "s", "t", "_", "a", "c", "t", "i", "o",
               "n" >>, RClass("ActionType")),
           Method(<< "g", "e", "t", "_", "r", "a", "n", "k" >>, RClass("NumberType")) >>)

\* class Event(serializers.Serializer), in module lib:
\*     action = serializers.ChoiceField(choices=ActionType.choices)
\*     tags = serializers.MultipleChoiceField(choices=ActionType.choices, allow_null=True)
\*     blank = serializers.ChoiceField(choices=[])
Event ==
    SerializerClass(
        << "E", "v", "e", "n", "t" >>,
        << "l", "i", "b" >>,
        << [Field(<< "a", "c", "t", "i", "o", "n" >>, "serializers.ChoiceField") EXCEPT
               !.has_choices = TRUE, !.choices = ActionType],
           [Field(<< "t", "a", "g", "s" >>, "serializers.MultipleChoiceField") EXCEPT
               !.has_choices = TRUE, !.choices = ActionType, !.allow_null = TRUE],
           [Field(<< "b", "l", "a", "n", "k" >>, "serializers.ChoiceField") EXCEPT
               !.has_choices = TRUE] >>,
        << >>)

\* a process whose serializers have choices
ChoiceClasses == {"Ticket", "Event"}

\* class PartSerializer(serializers.Serializer), in module lib:
\*     n = serializers.IntegerField()
PartSerializer ==
    SerializerClass(
        << "P", "a", "r", "t", "S", "e", "r", "i", "a", "l", "i", "z", "e", "r" >>,
        << "l", "i", "b" >>,
        << Field(<< "n" >>, "serializers.IntegerField") >>,
        << >>)

\* class Record(serializers.Serializer), in module lib:
\*     part = PartSerializer()
\*     parts = PartSerializer(many=True)
\*     stamp = StampField()
\*     owner = serializers.PrimaryKeyRelatedField(read_only=True)
\*     owner_id = serializers.PrimaryKeyRelatedField(queryset=Owner.objects.all()),
\*         Owner having a OneToOneField parent link to a model with an AutoField
\*     members = serializers.PrimaryKeyRelatedField(many=True, read_only=True)
\*     state = serializers.ChoiceField(choices=ActionType.choices)
\*     total = serializers.SerializerMethodField()
\*     name = serializers.CharField()
\*     tags = serializers.ListField(child=serializers.CharField())
\*     def get_total(self, obj) -> int
Record ==
    SerializerClass(
        << "R", "e", "c", "o", "r", "d" >>,
        << "l", "i", "b" >>,
        << Field(<< "p", "a", "r", "t" >>, "PartSerializer"),
           [Field(<< "p", "a", "r", "t", "s" >>, "serializers.ListSerializer") EXCEPT
               !.child = "PartSerializer"],
           Field(<< "s", "t", "a", "m", "p" >>, "StampField"),
           [Field(<< "o", "w", "n", "e", "r" >>, "serializers.PrimaryKeyRelatedField")
               EXCEPT !.pk = TRUE, !.read_only = TRUE],
           [Field(<< "o", "w", "n", "e", "r", "_", "i", "d" >>,
               "serializers.PrimaryKeyRelatedField") EXCEPT !.pk = TRUE, !.queryset = <<
               "fields.OneToOneField", "fields.AutoField" >>],
           [Field(<< "m", "e", "m", "b", "e", "r", "s" >>, "serializers.ManyRelatedField")
               EXCEPT !.child_relation = "serializers.PrimaryKeyRelatedField"],
           [Field(<< "s", "t", "a", "t", "e" >>, "serializers.ChoiceField") EXCEPT
               !.has_choices = TRUE, !.choices = ActionType],
           [Field(<< "t", "o", "t", "a", "l" >>, "serializers.SerializerMethodField") EXCEPT
               !.read_only = TRUE],
           Field(<< "n", "a", "m", "e" >>, "serializers.CharField"),
           [Field(<< "t", "a", "g", "s" >>, "serializers.ListField") EXCEPT !.child =
               "serializers.CharField"] >>,
        << Method(<< "g", "e", "t", "_", "t", "o", "t", "a", "l" >>, RClass("int")) >>)

\* a process whose serializer has a field for each way of typing one
FieldKindClasses == {"PartSerializer", "Record"}

\* the choice sets of the fields of Album and Label
StatusChoices ==
    << << StrVal(<< "1" >>), StrVal(<< "A", "r", "c", "h", "i", "v", "e", "d" >>) >>,
       << StrVal(<< "2" >>), StrVal(<< "P", "r", "e", "-", "s", "a", "v", "e", "d" >>) >>,
       << StrVal(<< "4" >>), StrVal(<< "U", "s", "e", "r", "'", "s", " ", "l", "i", "k", "e", "s" >>) >> >>

QuoteKeyChoices ==
    << << StrVal(<< "i", "t", "'", "s" >>), StrVal(<< "I", "t", "s" >>) >> >>

GradeChoices ==
    << << StrVal(<< "l", "o", "w" >>), StrVal(<< "1", "s", "t" >>) >>,
       << StrVal(<< "t", "o", "p" >>), StrVal(<< "T", "o", "p" >>) >> >>

SpanChoices ==
    << << StrVal(<< "a", "-", "b" >>), StrVal(<< "A", "b" >>) >>,
       << StrVal(<< "c", "d" >>), StrVal(<< "C", "d" >>) >> >>

StepChoices ==
    << << IntVal(1), StrVal(<< "P", "r", "e", "-", "s", "a", "v", "e", "d" >>) >>,
       << IntVal(2), StrVal(<< "G", "o", " ", "o", "n" >>) >> >>

ModeChoices ==
    << << StrVal(<< "g", "o" >>), StrVal(<< "F", "a", "s", "t", " ", "l", "a", "n", "e" >>) >>,
       << IntVal(3), StrVal(<< "S", "l", "o", "w" >>) >> >>

\* class Album(serializers.Serializer), in module lib:
\*     status = serializers.ChoiceField(choices=StatusChoices)
\*     num = serializers.ChoiceField(choices=NumberType.choices)
Album ==
    SerializerClass(
        << "A", "l", "b", "u", "m" >>,
        << "l", "i", "b" >>,
        << [Field(<< "s", "t", "a", "t", "u", "s" >>, "serializers.ChoiceField") EXCEPT
               !.has_choices = TRUE, !.choices = StatusChoices],
           [Field(<< "n", "u", "m" >>, "serializers.ChoiceField") EXCEPT
               !.has_choices = TRUE, !.choices = NumberType] >>,
        << >>)

\* class Label(serializers.Serializer), in module lib, with a ChoiceField for
\* each of the other choice sets: kind, grade, span, step, mode
Label ==
    SerializerClass(
        << "L", "a", "b", "e", "l" >>,
        << "l", "i", "b" >>,
        << [Field(<< "k", "i", "n", "d" >>, "serializers.ChoiceField") EXCEPT
               !.has_choices = TRUE, !.choices = QuoteKeyChoices],
           [Field(<< "g", "r", "a", "d", "e" >>, "serializers.ChoiceField") EXCEPT
               !.has_choices = TRUE, !.choices = GradeChoices],
           [Field(<< "s", "p", "a", "n" >>, "serializers.ChoiceField") EXCEPT
               !.has_choices = TRUE, !.choices = SpanChoices],
           [Field(<< "s", "t", "e", "p" >>, "serializers.ChoiceField") EXCEPT
               !.has_choices = TRUE, !.choices = StepChoices],
           [Field(<< "m", "o", "d", "e" >>, "serializers.ChoiceField") EXCEPT
               !.has_choices = TRUE, !.choices = ModeChoices] >>,
        << >>)

\* a process whose serializers have choices with keys and labels of every shape
EnumClasses == {"Album", "Label"}

\* class Sheet(serializers.Serializer), in module lib:
\*     part = PartSerializer(allow_null=True)
\*     parts = PartSerializer(many=True, allow_null=True)
\*     stamp = StampField(allow_null=True)
\*     tags = serializers.ListField(child=serializers.CharField(), allow_null=True)
\*     members = serializers.PrimaryKeyRelatedField(many=True, read_only=True)
\*     state = serializers.ChoiceField(choices=ActionType.choices, allow_null=True,
\*                                     required=False)
\*     total = serializers.SerializerMethodField(allow_null=True)
\*     name = serializers.CharField(allow_null=True)
\*     code = serializers.CharField()
\*     note = serializers.CharField()
\*     def get_total(self, obj) -> List[int]
Sheet ==
    SerializerClass(
        << "S", "h", "e", "e", "t" >>,
        << "l", "i", "b" >>,
        << [Field(<< "p", "a", "r", "t" >>, "PartSerializer") EXCEPT
               !.allow_null = TRUE],
           [Field(<< "p", "a", "r", "t", "s" >>, "serializers.ListSerializer") EXCEPT
               !.child = "PartSerializer", !.allow_null = TRUE],
           [Field(<< "s", "t", "a", "m", "p" >>, "StampField") EXCEPT
               !.allow_null = TRUE],
           [Field(<< "t", "a", "g", "s" >>, "serializers.ListField") EXCEPT
               !.child = "serializers.CharField", !.allow_null = TRUE],
           [Field(<< "m", "e", "m", "b", "e", "r", "s" >>, "serializers.ManyRelatedField") EXCEPT
               !.child_relation = "serializers.PrimaryKeyRelatedField", !.read_only = TRUE],
           [Field(<< "s", "t", "a", "t", "e" >>, "serializers.ChoiceField") EXCEPT
               !.has_choices = TRUE, !.choices = ActionType, !.allow_null = TRUE, !.required = FALSE],
           [Field(<< "t", "o", "t", "a", "l" >>, "serializers.SerializerMethodField") EXCEPT
               !.read_only = TRUE, !.allow_null = TRUE],
           [Field(<< "n", "a", "m", "e" >>, "serializers.CharField") EXCEPT
               !.allow_null = TRUE],
           Field(<< "c", "o", "d", "e" >>, "serializers.CharField"),
           Field(<< "n", "o", "t", "e" >>, "serializers.CharField") >>,
        << Method(<< "g", "e", "t", "_", "t", "o", "t", "a", "l" >>, RGeneric("list", << RClass("int") >>)) >>)

\* a process whose serializer has fields that allow null and fields that do
\* not, for each way of typing one
NullableClasses == {"PartSerializer", "Sheet"}

\* class Board(serializers.Serializer), in module lib:
\*     nums = serializers.SerializerMethodField()
\*     pair = serializers.SerializerMethodField()
\*     parts = serializers.SerializerMethodField()
\*     acts = serializers.SerializerMethodField()
\*     levels = serializers.SerializerMethodField()
\*     def get_nums(self, obj) -> List[int]
\*     def get_pair(self, obj) -> Tuple[str, str]
\*     def get_parts(self, obj) -> List[PartSerializer]
\*     def get_acts(self, obj) -> List[ActionType]
\*     def get_levels(self, obj) -> Set[NumberType]
Board ==
    SerializerClass(
        << "B", "o", "a", "r", "d" >>,
        << "l", "i", "b" >>,
        << [Field(<< "n", "u", "m", "s" >>, "serializers.SerializerMethodField") EXCEPT
               !.read_only = TRUE],
           [Field(<< "p", "a", "i", "r" >>, "serializers.SerializerMethodField") EXCEPT
               !.read_only = TRUE],
           [Field(<< "p", "a", "r", "t", "s" >>, "serializers.SerializerMethodField") EXCEPT
               !.read_only = TRUE],
           [Field(<< "a", "c", "t", "s" >>, "serializers.SerializerMethodField") EXCEPT
               !.read_only = TRUE],
           [Field(<< "l", "e", "v", "e", "l", "s" >>, "serializers.SerializerMethodField") EXCEPT
               !.read_only = TRUE] >>,
        << Method(<< "g", "e", "t", "_", "n", "u", "m", "s" >>, RGeneric("list", << RClass("int") >>)),
           Method(<< "g", "e", "t", "_", "p", "a", "i", "r" >>, RGeneric("tuple", << RClass("str"), RClass("str") >>)),
           Method(<< "g", "e", "t", "_", "p", "a", "r", "t", "s" >>, RGeneric("list", << RClass("PartSerializer") >>)),
           Method(<< "g", "e", "t", "_", "a", "c", "t", "s" >>, RGeneric("list", << RClass("ActionType") >>)),
           Method(<< "g", "e", "t", "_", "l", "e", "v", "e", "l", "s" >>, RGeneric("set", << RClass("NumberType") >>)) >>)

\* a process whose serializer has method fields that return containers
ContainerClasses == {"PartSerializer", "Board"}

\* class Custom(serializers.Serializer), in module lib:
\*     total = serializers.SerializerMethodField(method_name='compute')
\*     def compute(self, obj) -> int
Custom ==
    SerializerClass(
        << "C", "u", "s", "t", "o", "m" >>,
        << "l", "i", "b" >>,
        << [Field(<< "t", "o", "t", "a", "l" >>, "serializers.SerializerMethodField") EXCEPT
               !.read_only = TRUE, !.method_name = << "c", "o", "m", "p", "u", "t", "e" >>] >>,
        << Method(<< "c", "o", "m", "p", "u", "t", "e" >>, RClass("int")) >>)

\* class Bare(serializers.Serializer), in module lib:
\*     info = serializers.SerializerMethodField()
\*     def get_info(self, obj)
Bare ==
    SerializerClass(
        << "B", "a", "r", "e" >>,
        << "l", "i", "b" >>,
        << [Field(<< "i", "n", "f", "o" >>, "serializers.SerializerMethodField") EXCEPT
               !.read_only = TRUE] >>,
        << Method(<< "g", "e", "t", "_", "i", "n", "f", "o" >>, RNone) >>)

\* class Maybe(serializers.Serializer), in module lib:
\*     hint = serializers.SerializerMethodField()
\*     def get_hint(self, obj) -> Optional[int]
Maybe ==
    SerializerClass(
        << "M", "a", "y", "b", "e" >>,
        << "l", "i", "b" >>,
        << [Field(<< "h", "i", "n", "t" >>, "serializers.SerializerMethodField") EXCEPT
               !.read_only = TRUE] >>,
        << Method(<< "g", "e", "t", "_", "h", "i", "n", "t" >>, RGeneric("Union", << RClass("int"), RClass("NoneType") >>)) >>)

\* class Blank(serializers.Serializer), in module lib:
\*     kind = serializers.ChoiceField(choices={'': 'None', 'x': 'X'})
BlankChoices ==
    << << StrVal(<< >>), StrVal(<< "N", "o", "n", "e" >>) >>,
       << StrVal(<< "x" >>), StrVal(<< "X" >>) >> >>

Blank ==
    SerializerClass(
        << "B", "l", "a", "n", "k" >>,
        << "l", "i", "b" >>,
        << [Field(<< "k", "i", "n", "d" >>, "serializers.ChoiceField") EXCEPT
               !.has_choices = TRUE, !.choices = BlankChoices] >>,
        << >>)

\* a process whose serializers have accessors and choices of unusual shapes
LooseClasses == {"Custom", "Bare", "Maybe", "Blank"}

\* class Node(serializers.Serializer), in module lib:
\*     parent = serializers.SerializerMethodField()
\*     def get_parent(self, obj) -> 'Node'
Node ==
    SerializerClass(
        << "N", "o", "d", "e" >>,
        << "l", "i", "b" >>,
        << [Field(<< "p", "a", "r", "e", "n", "t" >>, "serializers.SerializerMethodField") EXCEPT
               !.read_only = TRUE] >>,
        << Method(<< "g", "e", "t", "_", "p", "a", "r", "e", "n", "t" >>, RClass("Node")) >>)

\* class Ping(serializers.Serializer), in module lib:
\*     peer = serializers.SerializerMethodField()
\*     nodes = serializers.SerializerMethodField()
\*     def get_peer(self, obj) -> 'Pong'
\*     def get_nodes(self, obj) -> List[Node]
Ping ==
    SerializerClass(
        << "P", "i", "n", "g" >>,
        << "l", "i", "b" >>,
        << [Field(<< "p", "e", "e", "r" >>, "serializers.SerializerMethodField") EXCEPT
               !.read_only = TRUE],
           [Field(<< "n", "o", "d", "e", "s" >>, "serializers.SerializerMethodField") EXCEPT
               !.read_only = TRUE] >>,
        << Method(<< "g", "e", "t", "_", "p", "e", "e", "r" >>, RClass("Pong")),
           Method(<< "g", "e", "t", "_", "n", "o", "d", "e", "s" >>, RGeneric("list", << RClass("Node") >>)) >>)

\* class Pong(serializers.Serializer), in module lib:
\*     peer = serializers.SerializerMethodField()
\*     def get_peer(self, obj) -> Ping
Pong ==
    SerializerClass(
        << "P", "o", "n", "g" >>,
        << "l", "i", "b" >>,
        << [Field(<< "p", "e", "e", "r" >>, "serializers.SerializerMethodField") EXCEPT
               !.read_only = TRUE] >>,
        << Method(<< "g", "e", "t", "_", "p", "e", "e", "r" >>, RClass("Ping")) >>)

\* a process whose serializers return themselves and each other
CycleClasses == {"Node", "Ping", "Pong"}

\* class Single(serializers.Serializer), in module lib:
\*     status = serializers.ChoiceField(choices={'d': 'Draft', 'p': 'Public'})
SingleStatusChoices ==
    << << StrVal(<< "d" >>), StrVal(<< "D", "r", "a", "f", "t" >>) >>,
       << StrVal(<< "p" >>), StrVal(<< "P", "u", "b", "l", "i", "c" >>) >> >>

Single ==
    SerializerClass(
        << "S", "i", "n", "g", "l", "e" >>,
        << "l", "i", "b" >>,
        << [Field(<< "s", "t", "a", "t", "u", "s" >>, "serializers.ChoiceField") EXCEPT
               !.has_choices = TRUE, !.choices = SingleStatusChoices] >>,
        << >>)

\* a process with two serializers that have a status field each, with
\* different choices
ClashClasses == {"Album", "Single"}

\* the serializer classes, by class
Classes ==
    [c \in LifecycleClasses \cup ChoiceClasses \cup FieldKindClasses \cup EnumClasses
          \cup NullableClasses \cup ContainerClasses \cup LooseClasses
          \cup CycleClasses \cup ClashClasses |->
        CASE c = "InnerSerializer" -> InnerSerializer
          [] c = "LocalSerializer" -> LocalSerializer
          [] c = "Outer" -> Outer
          [] c = "Ticket" -> Ticket
          [] c = "Event" -> Event
          [] c = "PartSerializer" -> PartSerializer
          [] c = "Record" -> Record
          [] c = "Album" -> Album
          [] c = "Label" -> Label
          [] c = "Sheet" -> Sheet
          [] c = "Board" -> Board
          [] c = "Custom" -> Custom
          [] c = "Bare" -> Bare
          [] c = "Maybe" -> Maybe
          [] c = "Blank" -> Blank
          [] c = "Node" -> Node
          [] c = "Ping" -> Ping
          [] c = "Pong" -> Pong
          [] c = "Single" -> Single]

\* the classes that ts_field is applied to; models.AutoField is no serializers.Field
FieldInputs == {"StampField", "PartSerializer", "fields.AutoField"}

\* the mapping_overrides that ts_interface is given for a class, when it is given any
OverrideInputs ==
    << << "Record",
          << << << "p", "a", "r", "t" >>, s_Date >>,
             << << "s", "t", "a", "m", "p" >>, s_Date >>,
             << << "o", "w", "n", "e", "r" >>, s_Date >>,
             << << "s", "t", "a", "t", "e" >>, s_Date >>,
             << << "t", "o", "t", "a", "l" >>, s_Date >>,
             << << "n", "a", "m", "e" >>, s_Date >> >> >>,
       << "Sheet",
          << << << "p", "a", "r", "t" >>, s_Date >>,
             << << "s", "t", "a", "m", "p" >>, s_Date >>,
             << << "t", "a", "g", "s" >>, s_Date >>,
             << << "m", "e", "m", "b", "e", "r", "s" >>, s_Date >>,
             << << "c", "o", "d", "e" >>, s_Date >> >> >> >>


\* the options that the generation calls are made with
GenOptions ==
    { Options(FALSE, FALSE, FALSE, FALSE, FALSE),
      Options(TRUE, TRUE, TRUE, TRUE, TRUE) }

\* the elements of a set in the order its iteration yields them: an order
\* that stays the same while the set does
RECURSIVE SetToSeq(_)
SetToSeq(S) ==
    IF S = {} THEN << >>
    ELSE LET x == CHOOSE y \in S : TRUE IN << x >> \o SetToSeq(S \ {x})

(* ------------------------------ registry ------------------------------ *)

VARIABLES
    serializers,        \* __serializers: context -> list of serializer classes
    field_mappings,     \* __field_mappings: context -> field class -> TS type
    mapping_overrides,  \* __mapping_overrides: context -> class -> field name -> TS type
    imports,            \* __imports: context -> origin context -> set of classes
    exported,           \* serializer class of the process -> getattr(cls, '__exported__', True)
    last,               \* the last call made and what it returned or wrote
    decorated           \* the number of classes that ts_interface has registered
                        \* since the initial state

vars == << serializers, field_mappings, mapping_overrides, imports, exported, last,
          decorated >>

\* the module state, as the functions below read and change it
Registry(s, f, m, i, c) ==
    [serializers |-> s, field_mappings |-> f, mapping_overrides |-> m,
     imports |-> i, exported |-> c]

\* issubclass(cls, serializers.Serializer)
IsSerializerClass(reg, cls) == cls \in DOMAIN reg.exported

\* issubclass(cls, serializers.Field): the fields of rest_framework, and the
\* serializers, which are fields too
IsFieldClass(reg, cls) ==
    IsSerializerClass(reg, cls) \/ cls \in FieldClasses

\* ts_field without the test that the class has no mapping yet: the last
\* registration wins
ts_field_last_wins(reg, ts_type, context, cls) ==
    IF IsFieldClass(reg, cls)
    THEN [reg EXCEPT !.field_mappings =
             Put(reg.field_mappings, context,
                 Put(GetOr(reg.field_mappings, context, << >>), cls, ts_type))]
    ELSE reg

ts_field(reg, ts_type, context, cls) ==
    IF IsFieldClass(reg, cls)
    THEN LET fm1 == IF ~Has(reg.field_mappings, context)
                    THEN Put(reg.field_mappings, context, << >>)
                    ELSE reg.field_mappings
             fm2 == IF ~Has(Get(fm1, context), cls)
                    THEN Put(fm1, context, Put(Get(fm1, context), cls, ts_type))
                    ELSE fm1
         IN  [reg EXCEPT !.field_mappings = fm2]
    ELSE reg

\* ts_interface with __mapping_overrides kept for all the contexts at once:
\* the overrides given for a class count under every context
ts_interface_overrides_everywhere(reg, context, overrides, cls) ==
    IF IsSerializerClass(reg, cls)
    THEN LET fm == IF ~Has(reg.field_mappings, context)
                   THEN Put(reg.field_mappings, context, << >>)
                   ELSE reg.field_mappings
             s1 == IF ~Has(reg.serializers, context)
                   THEN Put(reg.serializers, context, << >>)
                   ELSE reg.serializers
             s2 == Put(s1, context, Append(Get(s1, context), cls))
             Under(m, c) == IF ~Has(GetOr(m, c, << >>), cls)
                            THEN Put(m, c, Put(GetOr(m, c, << >>), cls, overrides))
                            ELSE m
             mo == IF Len(overrides) > 0
                   THEN Under(Under(reg.mapping_overrides, ctx_a), ctx_b)
                   ELSE reg.mapping_overrides
         IN  [reg EXCEPT !.field_mappings = fm, !.serializers = s2,
                         !.mapping_overrides = mo]
    ELSE reg

ts_interface(reg, context, overrides, cls) ==
    IF IsSerializerClass(reg, cls)
    THEN LET fm == IF ~Has(reg.field_mappings, context)
                   THEN Put(reg.field_mappings, context, << >>)
                   ELSE reg.field_mappings
             s1 == IF ~Has(reg.serializers, context)
                   THEN Put(reg.serializers, context, << >>)
                   ELSE reg.serializers
             s2 == Put(s1, context, Append(Get(s1, context), cls))
             mo == IF Len(overrides) > 0
                   THEN LET m1 == IF ~Has(reg.mapping_overrides, context)
                                  THEN Put(reg.mapping_overrides, context, << >>)
                                  ELSE reg.mapping_overrides
                        IN  IF ~Has(Get(m1, context), cls)
                            THEN Put(m1, context, Put(Get(m1, context), cls, overrides))
                            ELSE m1
                   ELSE reg.mapping_overrides
         IN  [reg EXCEPT !.field_mappings = fm, !.serializers = s2,
                         !.mapping_overrides = mo]
    ELSE reg

\* x in xs
InList(xs, x) == \E i \in 1..Len(xs) : xs[i] = x

\* __is_known_serializer_type when no other context is looked at
never_known(reg, serializer_type, context) == [reg |-> reg, known |-> FALSE]

\* the first context, in the order of the dict, whose list holds the class
is_known_serializer_type(reg, serializer_type, context) ==
    LET hits == {i \in 1..Len(reg.serializers) :
                    InList(reg.serializers[i][2], serializer_type)}
    IN  IF hits = {} THEN [reg |-> reg, known |-> FALSE]
        ELSE LET _context     == reg.serializers[CHOOSE i \in hits :
                                                    \A j \in hits : i <= j][1]
                 imports0     == GetOr(reg.imports, context, << >>)
                 type_imports == GetOr(imports0, _context, {}) \cup {serializer_type}
                 imports1     == Put(imports0, _context, type_imports)
             IN  [reg   |-> [reg EXCEPT !.imports = Put(reg.imports, context, imports1)],
                  known |-> TRUE]

process_generic_type(return_type) ==
    IF return_type.id \in {"list", "tuple", "set"}
    THEN [return_type |-> return_type.args[1], is_many |-> TRUE]
    ELSE [return_type |-> return_type, is_many |-> FALSE]

\* inspect.isclass(return_type) and issubclass(return_type, Choices)
IsChoicesClass(return_type) == return_type.k = "class" /\ Has(ChoicesClasses, return_type.id)

process_method_field(field_name, return_type, enum_choices, enum_values, enum_keys, many) ==
    IF IsChoicesClass(return_type)
    THEN LET choices == Get(ChoicesClasses, return_type.id)
         IN  IF enum_choices
             THEN IF enum_values
                  THEN TitleName(field_name) \o s_ChoiceEnum \o s_Values
                  ELSE TitleName(field_name) \o s_ChoiceEnum
             ELSE IF enum_keys
             THEN TitleName(field_name) \o s_ChoiceEnum \o s_Keys
             ELSE map_choices_to_union(field_name, choices)
    ELSE LET key     == IF return_type.k = "none" THEN "None"
                        ELSE IF return_type.k = "class" THEN return_type.id
                        ELSE NoAttr
             ts_type == GetOr(primitives_mapping, key, s_any)
         IN  IF ~many THEN ts_type ELSE ts_type \o s_list

\* the accessor of a method field: getattr(serializer, name), with absent
\* TRUE when that raises AttributeError
Accessor(reg, serializer, name) ==
    LET methods == Classes[serializer].methods
    IN  IF Has(methods, name)
        THEN [absent |-> FALSE, ret |-> Get(methods, name).ret]
        ELSE [absent |-> TRUE, ret |-> RNone]

\* the part of __get_nested_serializer_field after the accessor is found and
\* a typing generic is unwrapped: return_type and many are its locals
NestedType(reg, context, enum_choices, enum_values, enum_keys, field_name, is_many, trim_serializer_output, return_type, many) ==
    IF return_type.k = "list"
    THEN LET Unwrapped(r) == IF r.k = "generic" THEN process_generic_type(r)
                             ELSE [return_type |-> r, is_many |-> FALSE]
             Typed(u) == process_method_field(field_name, u.return_type, enum_choices,
                                              enum_values, enum_keys, u.is_many)
             types == DictFromKeys([i \in 1..Len(return_type.args) |->
                                       Typed(Unwrapped(return_type.args[i]))])
         IN  [reg |-> reg, is_many |-> is_many, ts_type |-> Join(types, s_bar),
              err |-> FALSE]
    ELSE IF return_type.k # "none"
    THEN \* issubclass(return_type, BaseSerializer): TypeError unless a class
         IF return_type.k # "class"
         THEN [reg |-> reg, is_many |-> is_many, ts_type |-> << >>, err |-> TRUE]
         ELSE IF IsSerializerClass(reg, return_type.id)
         THEN LET cls == return_type.id
                  is_external_serializer ==
                      Replace(Classes[cls].module, s_dot_serializers, << >>) # context
                  \* ts_interface(context=context)(return_type), __exported__ = False
                  Included(r) == [ts_interface(r, context, << >>, cls)
                                     EXCEPT !.exported[cls] = FALSE]
                  Imported(known) == IF ~known.known THEN Included(known.reg)
                                     ELSE known.reg
              IN  [reg |-> IF is_external_serializer
                              /\ ~InList(GetOr(reg.serializers, context, << >>), cls)
                           THEN Imported(is_known_serializer_type(reg, cls, context))
                           ELSE reg,
                   is_many |-> many,
                   ts_type |-> get_trimmed_name(Classes[cls].name,
                                                trim_serializer_output),
                   err |-> FALSE]
         ELSE [reg |-> reg, is_many |-> is_many,
               ts_type |-> process_method_field(field_name, return_type, enum_choices,
                                                enum_values, enum_keys, many),
               err |-> FALSE]
    ELSE [reg |-> reg, is_many |-> is_many,
          ts_type |-> process_method_field(field_name, return_type, enum_choices,
                                           enum_values, enum_keys, many),
          err |-> FALSE]

\* return_type, many = __process_generic_type(return_type) when it has __origin__
Unwrap(hint) ==
    IF hint.k = "generic" THEN process_generic_type(hint)
    ELSE [return_type |-> hint, is_many |-> FALSE]

\* the part of __get_nested_serializer_field after getattr(serializer, ...)
NestedOf(reg, context, enum_choices, enum_values, enum_keys, field_name, is_many, trim_serializer_output, field_function) ==
    IF field_function.absent
    THEN [reg |-> reg, is_many |-> is_many, ts_type |-> << >>, err |-> TRUE]
    ELSE NestedType(reg, context, enum_choices, enum_values, enum_keys, field_name,
                    is_many, trim_serializer_output,
                    Unwrap(field_function.ret).return_type,
                    Unwrap(field_function.ret).is_many)

get_nested_serializer_field(reg, context, enum_choices, enum_values, enum_keys, field, field_name, is_many, serializer, trim_serializer_output) ==
    NestedOf(reg, context, enum_choices, enum_values, enum_keys, field_name, is_many,
             trim_serializer_output,
             IF Len(field.method_name) > 0
             THEN Accessor(reg, serializer, field.method_name)
             ELSE Accessor(reg, serializer, s_get_ \o field_name))

\* the primary key that the walk over OneToOneField parents ends on
RECURSIVE TargetField(_)
TargetField(queryset) ==
    IF Len(queryset) > 1 /\ queryset[1] = "fields.OneToOneField"
    THEN TargetField(Tail(queryset)) ELSE queryset[1]

\* is_many and field_type of __process_field
FieldKind(field) ==
    IF field.pk /\ Len(field.queryset) > 0
    THEN [is_many |-> FALSE, field_type |-> TargetField(field.queryset)]
    ELSE IF field.child # NoAttr
    THEN [is_many |-> TRUE, field_type |-> field.child]
    ELSE IF field.child_relation # NoAttr
    THEN [is_many |-> TRUE, field_type |-> field.child_relation]
    ELSE [is_many |-> FALSE, field_type |-> field.cls]

\* field_name_components[0] + "".join(x.title() for x in field_name_components[1:])
Camelize(field_name) ==
    LET field_name_components == Split(field_name, "_")
    IN  field_name_components[1]
        \o Concat([i \in 1..(Len(field_name_components) - 1) |->
                      Title(field_name_components[i + 1])])

\* the branches for a field with choices when enum_values, where it is set
\* with enum_choices, decides the type
choice_type_values_first(field_name, choices, o) ==
    IF o.enum_choices /\ o.enum_values
    THEN TitleName(field_name) \o s_ChoiceEnum \o s_Values
    ELSE IF o.enum_choices
    THEN TitleName(field_name) \o s_ChoiceEnum
    ELSE IF o.enum_keys
    THEN TitleName(field_name) \o s_ChoiceEnum \o s_Keys
    ELSE map_choices_to_union(field_name, choices)

\* the four branches of __process_field for a field that has
\* choice_strings_to_values, in their order
ChoiceType(field_name, choices, o) ==
    IF o.enum_choices
    THEN TitleName(field_name) \o s_ChoiceEnum
    ELSE IF o.enum_choices /\ o.enum_values /\ ~o.enum_keys
    THEN TitleName(field_name) \o s_ChoiceEnum \o s_Values
    ELSE IF o.enum_keys
    THEN TitleName(field_name) \o s_ChoiceEnum \o s_Keys
    ELSE map_choices_to_union(field_name, choices)

\* the if/elif chain of __process_field: the type before the list marker
FieldType(reg, field_name, field, context, serializer, o, is_many, field_type) ==
    LET Plain(ts_type) ==
            [reg |-> reg, is_many |-> is_many, ts_type |-> ts_type, err |-> FALSE]
        Known(known) ==
            IF known.known
            THEN [reg |-> known.reg, is_many |-> is_many,
                  ts_type |-> get_trimmed_name(Classes[field_type].name,
                                               o.trim_serializer_output),
                  err |-> FALSE]
            ELSE IF Has(Get(reg.field_mappings, context), field_type)
            THEN Plain(GetOr(Get(reg.field_mappings, context), field_type, s_any))
            ELSE IF Has(reg.mapping_overrides, context)
                    /\ Has(Get(reg.mapping_overrides, context), serializer)
                    /\ Has(Get(Get(reg.mapping_overrides, context), serializer), field_name)
            THEN Plain(GetOr(Get(Get(reg.mapping_overrides, context), serializer),
                             field_name, s_any))
            ELSE IF field_type = "serializers.PrimaryKeyRelatedField"
            THEN Plain(s_number)
            ELSE IF field.has_choices
            THEN Plain(ChoiceType(field_name, field.choices, o))
            ELSE IF field_type = "serializers.SerializerMethodField"
            THEN get_nested_serializer_field(reg, context, o.enum_choices, o.enum_values,
                                             o.enum_keys, field, field_name, is_many,
                                             serializer, o.trim_serializer_output)
            ELSE Plain(IF field_type \in DOMAIN mappings_by_key
                       THEN mappings_by_key[field_type] ELSE s_any)
    IN  IF InList(Get(reg.serializers, context), field_type)
        THEN Plain(get_trimmed_name(Classes[field_type].name,
                                    o.trim_serializer_output))
        ELSE Known(is_known_serializer_type(reg, field_type, context))

\* the end of __process_field: the list marker and the camelized name
FieldResult(base, field_name, o) ==
    [reg        |-> base.reg,
     field_name |-> IF o.camelize THEN Camelize(field_name) ELSE field_name,
     ts_type    |-> IF base.is_many THEN base.ts_type \o s_list ELSE base.ts_type,
     err        |-> base.err]

process_field(reg, field_name, field, context, serializer, o) ==
    FieldResult(FieldType(reg, field_name, field, context, serializer, o,
                          FieldKind(field).is_many, FieldKind(field).field_type),
                field_name, o)

\* the line of a field with an elif for the null marker: an optional field
\* never gets it
field_line_null_unless_optional(value, p) ==
    s_indent
    \o (IF value.read_only \/ ~value.required THEN p.field_name \o s_opt
        ELSE p.field_name)
    \o s_colon
    \o (IF value.allow_null /\ ~(value.read_only \/ ~value.required)
        THEN p.ts_type \o s_or_null ELSE p.ts_type)
    \o s_semi

\* the line of a field in the interface: the markers of __get_ts_interface
FieldLine(value, p) ==
    s_indent
    \o (IF value.read_only \/ ~value.required THEN p.field_name \o s_opt
        ELSE p.field_name)
    \o s_colon
    \o (IF value.allow_null THEN p.ts_type \o s_or_null ELSE p.ts_type)
    \o s_semi

\* the loop of __get_ts_interface over the fields, from field i on
RECURSIVE InterfaceFields(_, _, _, _, _, _)
RECURSIVE InterfaceFieldsNext(_, _, _, _, _, _, _)
InterfaceFieldsNext(p, value, serializer, context, o, i, ts_fields) ==
    IF p.err THEN [reg |-> p.reg, ts_fields |-> ts_fields, err |-> TRUE]
    ELSE InterfaceFields(p.reg, serializer, context, o, i + 1,
                         Append(ts_fields, FieldLine(value, p)))

InterfaceFields(reg, serializer, context, o, i, ts_fields) ==
    IF i > Len(Classes[serializer].fields)
    THEN [reg |-> reg, ts_fields |-> ts_fields, err |-> FALSE]
    ELSE InterfaceFieldsNext(
             process_field(reg, Classes[serializer].fields[i].name,
                           Classes[serializer].fields[i], context, serializer, o),
             Classes[serializer].fields[i], serializer, context, o, i, ts_fields)

\* the text of the interface, once its fields are processed
InterfaceText(f, serializer, o) ==
    [reg  |-> f.reg,
     text |-> (IF f.reg.exported[serializer] THEN s_export ELSE << >>)
              \o s_interface
              \o get_trimmed_name(Classes[serializer].name, o.trim_serializer_output)
              \o s_open \o Join(f.ts_fields, s_nl) \o s_nl \o s_close2,
     err  |-> f.err]

get_ts_interface(reg, serializer, context, o) ==
    InterfaceText(InterfaceFields(reg, serializer, context, o, 1, << >>), serializer, o)

generate_imports(reg, context, trim_serializer_output) ==
    IF Has(reg.imports, context)
    THEN LET packages == Get(reg.imports, context)
             Names(ordered) ==
                 [j \in 1..Len(ordered) |->
                     get_trimmed_name(Classes[ordered[j]].name,
                                      trim_serializer_output)]
             Line(i) ==
                 s_import \o Join(Names(SetToSeq(packages[i][2])), s_comma)
                 \o s_from \o packages[i][1] \o s_import_end
         IN  Concat([i \in 1..Len(packages) |-> Line(i)]) \o s_nl
    ELSE << >>

\* the list comprehension of __generate_interfaces, from entry i of the list on;
\* the list is read anew at each step, so entries appended meanwhile are met
RECURSIVE InterfacesFrom(_, _, _, _, _)
RECURSIVE InterfacesNext(_, _, _, _, _)
\* the interface of each serializer put before those of the earlier ones
interfaces_newest_first(t, context, o, i, interfaces) ==
    IF t.err THEN [reg |-> t.reg, interfaces |-> interfaces, err |-> TRUE]
    ELSE InterfacesFrom(t.reg, context, o, i + 1, << t.text >> \o interfaces)

InterfacesNext(t, context, o, i, interfaces) ==
    IF t.err THEN [reg |-> t.reg, interfaces |-> interfaces, err |-> TRUE]
    ELSE InterfacesFrom(t.reg, context, o, i + 1, Append(interfaces, t.text))

InterfacesFrom(reg, context, o, i, interfaces) ==
    IF i > Len(Get(reg.serializers, context))
    THEN [reg |-> reg, interfaces |-> interfaces, err |-> FALSE]
    ELSE InterfacesNext(get_ts_interface(reg, Get(reg.serializers, context)[i], context, o),
                        context, o, i, interfaces)

generate_interfaces(reg, context, o) ==
    IF ~Has(reg.serializers, context)
    THEN [reg |-> reg, interfaces |-> << >>, err |-> FALSE]
    ELSE InterfacesFrom(reg, context, o, 1, << >>)

\* ts_enum, ts_enum_value, ts_enum_key, and err when one of them raised
EnumsOf(e) ==
    [ts_enum |-> e.ts_enum, ts_enum_value |-> e.ts_enum_value,
     ts_enum_key |-> e.ts_enum_key,
     err |-> e.ts_enum.err \/ e.ts_enum_value.err \/ e.ts_enum_key.err]

\* the second half of __extract_field_enums, e1 being what the first half left
ExtractMethodEnums(e1, enum_choices, enum_values, enum_keys, field, field_name, field_function) ==
    IF e1.err THEN e1
    ELSE IF (IF field.child # NoAttr THEN field.child
             ELSE IF field.child_relation # NoAttr THEN field.child_relation
             ELSE field.cls) = "serializers.SerializerMethodField"
    THEN IF field_function.absent THEN [e1 EXCEPT !.err = TRUE]
         ELSE IF IsChoicesClass(field_function.ret)
         THEN EnumsOf(process_choice_field(field_name,
                                           Get(ChoicesClasses, field_function.ret.id),
                                           enum_choices, enum_values, enum_keys))
         ELSE e1
    ELSE e1

extract_field_enums(reg, enum_choices, enum_values, enum_keys, field, field_name, serializer) ==
    ExtractMethodEnums(
        IF field.has_choices
        THEN EnumsOf(process_choice_field(field_name, field.choices, enum_choices,
                                          enum_values, enum_keys))
        ELSE [ts_enum |-> None, ts_enum_value |-> None, ts_enum_key |-> None,
              err |-> FALSE],
        enum_choices, enum_values, enum_keys, field, field_name,
        Accessor(reg, serializer, s_get_ \o field_name))

\* what the loop body of __generate_enums appends for one field
Appended(e) ==
    (IF e.ts_enum_value.some THEN << e.ts_enum_value.s >> ELSE << >>)
    \o (IF e.ts_enum_key.some THEN << e.ts_enum_key.s >> ELSE << >>)
    \o (IF e.ts_enum.some THEN << e.ts_enum.s >> ELSE << >>)

\* the enums of all the fields, given what __extract_field_enums made of each
Collected(es) ==
    [enums |-> Concat([i \in 1..Len(es) |-> Appended(es[i])]),
     err   |-> \E i \in 1..Len(es) : es[i].err]

\* the (serializer, field) pairs that the loops of __generate_enums visit, in order
EnumFields(reg, context) ==
    LET registered == Get(reg.serializers, context)
    IN  Concat([i \in 1..Len(registered) |->
                  [j \in 1..Len(Classes[registered[i]].fields) |->
                      << registered[i], Classes[registered[i]].fields[j] >>]])

generate_enums(reg, context, enum_choices, enum_values, enum_keys) ==
    IF ~Has(reg.serializers, context) THEN [enums |-> << >>, err |-> FALSE]
    ELSE Collected([k \in 1..Len(EnumFields(reg, context)) |->
                      extract_field_enums(reg, enum_choices, enum_values, enum_keys,
                                          EnumFields(reg, context)[k][2],
                                          EnumFields(reg, context)[k][2].name,
                                          EnumFields(reg, context)[k][1])])

\* __remove_duplicate_enums without set() and sorted(): the enums as collected
keep_all_enums(enums) ==
    IF Len(enums) > 0 THEN Join(enums, s_nl) \o s_nl \o s_nl ELSE << >>

remove_duplicate_enums(enums) ==
    IF Len(enums) > 0
    THEN Join(SortedStrs({enums[i] : i \in 1..Len(enums)}), s_nl) \o s_nl \o s_nl
    ELSE << >>

\* interfaces and enums_string of generate_ts and get_ts; e is what
\* __generate_enums returned, or the empty list when no enum option is set
WithEnums(g, e) ==
    [reg |-> g.reg, interfaces |-> g.interfaces,
     enums_string |-> IF g.err \/ e.err THEN << >> ELSE remove_duplicate_enums(e.enums),
     err |-> g.err \/ e.err]

\* the enums are generated from the registry as the interfaces left it
EnumsAfter(g, context, o) ==
    WithEnums(g, IF ~g.err /\ (o.enum_choices \/ o.enum_values \/ o.enum_keys)
                 THEN generate_enums(g.reg, context, o.enum_choices, o.enum_values,
                                     o.enum_keys)
                 ELSE [enums |-> << >>, err |-> FALSE])

\* what generate_ts and get_ts compute before they write or return
Generated(reg, context, o) == EnumsAfter(generate_interfaces(reg, context, o), context, o)

\* the file that generate_ts leaves: it is opened for writing first, so it is
\* empty when the call raises
Written(g, context, o) ==
    [reg  |-> g.reg,
     text |-> IF g.err THEN << >>
              ELSE generate_imports(g.reg, context, o.trim_serializer_output)
                   \o g.enums_string \o Concat(g.interfaces),
     err  |-> g.err]

generate_ts(reg, context, o) == Written(Generated(reg, context, o), context, o)

\* the str that get_ts returns (none when the call raises)
Returned(g) ==
    [reg  |-> g.reg,
     text |-> IF g.err THEN << >> ELSE g.enums_string \o Concat(g.interfaces),
     err  |-> g.err]

get_ts(reg, context, o) == Returned(Generated(reg, context, o))

(* ------------------------------ actions ------------------------------- *)

\* a call and its outcome: cls is the class that a decorator was applied to,
\* ts_type the type given to ts_field, text what get_ts returned or generate_ts
\* wrote
Call(op, context, cls, ts_type, o, text, err) ==
    [op |-> op, context |-> context, cls |-> cls, ts_type |-> ts_type, options |-> o,
     text |-> text, err |-> err]

NoOptions == Options(FALSE, FALSE, FALSE, FALSE, FALSE)

Reg == Registry(serializers, field_mappings, mapping_overrides, imports, exported)

\* the registry variables take the values of r
Becomes(r) ==
    /\ serializers' = r.serializers
    /\ field_mappings' = r.field_mappings
    /\ mapping_overrides' = r.mapping_overrides
    /\ imports' = r.imports
    /\ exported' = r.exported

\* the number of entries of all the dicts of __field_mappings
Mapped == Len(Concat([i \in 1..Len(field_mappings) |-> field_mappings[i][2]]))

\* the mapping_overrides given to ts_interface: none, or those of OverrideInputs
MappingOverrides(cls) ==
    IF Has(OverrideInputs, cls) THEN {<< >>, Get(OverrideInputs, cls)} ELSE {<< >>}

\* the classes of the process: the serializers and the classes of their fields
Defined ==
    DOMAIN exported
    \cup UNION {{Classes[c].fields[i].cls : i \in 1..Len(Classes[c].fields)} :
                  c \in DOMAIN exported}

\* @ts_interface(context, mapping_overrides) on a class
TsInterface ==
    /\ decorated < MaxRegs
    /\ \E context \in Contexts, cls \in DOMAIN exported \cup {"serializers.CharField"} :
         \E overrides \in MappingOverrides(cls) :
            /\ Becomes(ts_interface(Reg, context, overrides, cls))
            /\ last' = Call("ts_interface", context, cls, << >>, NoOptions, << >>, FALSE)
            /\ decorated' = IF IsSerializerClass(Reg, cls) THEN decorated + 1
                            ELSE decorated

\* @ts_field(ts_type, context) on a class
TsField ==
    \E context \in Contexts, ts_type \in {s_string, s_Date} :
        \E cls \in FieldInputs \cap (Defined \cup {"fields.AutoField"}) :
            /\ Mapped < MaxMappings \/ Has(GetOr(field_mappings, context, << >>), cls)
            /\ Becomes(ts_field(Reg, ts_type, context, cls))
            /\ last' = Call("ts_field", context, cls, ts_type, NoOptions, << >>, FALSE)
            /\ UNCHANGED decorated

\* a generation call ends: the registry is as it left it, last tells the outcome
Ends(op, context, o, r) ==
    /\ Becomes(r.reg)
    /\ last' = Call(op, context, "", << >>, o, r.text, r.err)
    /\ UNCHANGED decorated

GenerateTs ==
    \E context \in Contexts, o \in GenOptions :
        Ends("generate_ts", context, o, generate_ts(Reg, context, o))

GetTs ==
    \E context \in Contexts, o \in GenOptions :
        Ends("get_ts", context, o, get_ts(Reg, context, o))

Next == TsInterface \/ TsField \/ GenerateTs \/ GetTs

\* the module as imported by a process with these classes: empty dicts, no
\* call made yet
Empty(world) ==
    /\ serializers = << >>
    /\ field_mappings = << >>
    /\ mapping_overrides = << >>
    /\ imports = << >>
    /\ exported = [c \in world |-> TRUE]
    /\ last = Call("import", << >>, "", << >>, NoOptions, << >>, FALSE)
    /\ decorated = 0

Init == Empty(LifecycleClasses)

Spec == Init /\ [][Next]_vars

InitChoices == Empty(ChoiceClasses)

SpecChoices == InitChoices /\ [][Next]_vars

InitFields == Empty(FieldKindClasses)

SpecFields == InitFields /\ [][Next]_vars

InitEnums == Empty(EnumClasses)

SpecEnums == InitEnums /\ [][Next]_vars

InitNullable == Empty(NullableClasses)

SpecNullable == InitNullable /\ [][Next]_vars

InitContainers == Empty(ContainerClasses)

SpecContainers == InitContainers /\ [][Next]_vars

InitLoose == Empty(LooseClasses)

SpecLoose == InitLoose /\ [][Next]_vars

InitClash == Empty(ClashClasses)

SpecClash == InitClash /\ [][Next]_vars

\* the module as imported by a process whose module lib decorates a class at
\* its definition:
\*     @ts_interface(context='a')
\*     class InnerSerializer(serializers.Serializer)
Decorated(r) ==
    /\ serializers = r.serializers
    /\ field_mappings = r.field_mappings
    /\ mapping_overrides = r.mapping_overrides
    /\ imports = r.imports
    /\ exported = r.exported
    /\ last = Call("ts_interface", ctx_a, "InnerSerializer", << >>, NoOptions, << >>, FALSE)
    /\ decorated = 0

InitDecorated ==
    Decorated(ts_interface(Registry(<< >>, << >>, << >>, << >>,
                                    [c \in LifecycleClasses |-> TRUE]),
                           ctx_a, << >>, "InnerSerializer"))

SpecDecorated == InitDecorated /\ [][Next]_vars

InitCycle == Empty(CycleClasses)

(* ------------------- a generation call, step by step ------------------ *)

\* get_ts is inside the list comprehension of __generate_interfaces
Running == last.op = "pass"

\* the locals of the comprehension: i is the place of the list iterator,
\* interfaces the list built so far, started the length that the list of the
\* context had when the call began
Pass(context, o, i, interfaces, started) ==
    [op |-> "pass", context |-> context, cls |-> "", ts_type |-> << >>, options |-> o,
     text |-> << >>, err |-> FALSE, i |-> i, interfaces |-> interfaces,
     started |-> started]

\* the comprehension over a copy of the list, made when the call began: the
\* iterator ends after the last entry of the copy
pass_over_a_copy(p, t) ==
    IF t.err THEN [p EXCEPT !.err = TRUE]
    ELSE [p EXCEPT !.i = IF p.i >= p.started
                         THEN Len(Get(t.reg.serializers, p.context)) + 1
                         ELSE p.i + 1,
                   !.interfaces = Append(p.interfaces, t.text)]

\* one turn of the comprehension: t is what __get_ts_interface returned for
\* the entry at the iterator, which moves on by one
PassStep(p, t) ==
    IF t.err THEN [p EXCEPT !.err = TRUE]
    ELSE [p EXCEPT !.i = p.i + 1, !.interfaces = Append(p.interfaces, t.text)]

\* @ts_interface on a class, by the code that imports the module: never
\* while a generation call runs
Register == ~Running /\ TsInterface

\* get_ts(context, ...) is called
StartPass ==
    /\ ~Running
    /\ \E context \in Contexts, o \in GenOptions :
          last' = Pass(context, o, 1, << >>, Len(GetOr(serializers, context, << >>)))
    /\ UNCHANGED << serializers, field_mappings, mapping_overrides, imports, exported,
                    decorated >>

\* the registry and the locals after the turn
Stepped(t) ==
    /\ Becomes(t.reg)
    /\ last' = PassStep(last, t)
    /\ UNCHANGED decorated

\* the iterator yields the entry at its place
StepPass ==
    /\ Running /\ ~last.err
    /\ last.i <= Len(GetOr(serializers, last.context, << >>))
    /\ Stepped(get_ts_interface(Reg, Get(serializers, last.context)[last.i],
                                last.context, last.options))

\* get_ts returns, or raises what the turn raised
Ended(r) ==
    /\ Becomes(r.reg)
    /\ last' = [last EXCEPT !.op = "get_ts", !.text = r.text, !.err = r.err]
    /\ UNCHANGED decorated

\* the iterator is exhausted: the enums are generated and the text is joined
EndPass ==
    /\ Running
    /\ last.err \/ last.i > Len(GetOr(serializers, last.context, << >>))
    /\ Ended(Returned(EnumsAfter([reg |-> Reg, interfaces |-> last.interfaces,
                                  err |-> last.err],
                                 last.context, last.options)))

NextPass == Register \/ StartPass \/ StepPass \/ EndPass

SpecPass == InitCycle /\ [][NextPass]_vars

(* ----------------- the generate_ts management command ----------------- *)

\* the longest list given to --serializers
MaxItems == 2

\* the modules that import_module finds, each with dir(module) in its order:
\* the name of an attribute, what it is, and the class or module it is
Attr(name, kind, what) == [name |-> name, kind |-> kind, what |-> what]

s_lib == << "l", "i", "b" >>

s_a_serializers == << "a", ".", "s", "e", "r", "i", "a", "l", "i", "z", "e", "r", "s" >>

Modules ==
    << << s_lib,
          << Attr(<< "I", "n", "n", "e", "r", "S", "e", "r", "i", "a", "l", "i", "z", "e", "r" >>, "class", "InnerSerializer"),
             Attr(<< "O", "u", "t", "e", "r" >>, "class", "Outer"),
             Attr(<< "V", "E", "R", "S", "I", "O", "N" >>, "other", << >>),
             Attr(<< "_", "B", "a", "s", "e" >>, "class", "InnerSerializer") >> >>,
       << << "a" >>,
          << Attr(<< "s", "e", "r", "i", "a", "l", "i", "z", "e", "r", "s" >>, "module", s_a_serializers) >> >>,
       << s_a_serializers,
          << Attr(<< "I", "n", "n", "e", "r", "S", "e", "r", "i", "a", "l", "i", "z", "e", "r" >>, "class", "InnerSerializer"),
             Attr(<< "L", "o", "c", "a", "l", "S", "e", "r", "i", "a", "l", "i", "z", "e", "r" >>, "class", "LocalSerializer") >> >> >>

\* apps.get_app_configs(): the name of each app, and whether its path is
\* under settings.BASE_DIR
AppConfigs ==
    << [name |-> << "r", "e", "s", "t", "_", "f", "r", "a", "m", "e", "w", "o", "r", "k" >>, in_project |-> FALSE],
       [name |-> << "a" >>, in_project |-> TRUE],
       [name |-> s_lib, in_project |-> TRUE] >>

\* the items that --serializers is given: two classes of lib, a class of
\* a.serializers, a name that lib does not have, a module that does not exist
Items ==
    { << "l", "i", "b", ".", "I", "n", "n", "e", "r", "S", "e", "r", "i", "a", "l", "i", "z", "e", "r" >>,
      << "l", "i", "b", ".", "O", "u", "t", "e", "r" >>,
      << "a", ".", "s", "e", "r", "i", "a", "l", "i", "z", "e", "r", "s", ".", "L", "o", "c", "a", "l", "S", "e", "r", "i", "a", "l", "i", "z", "e", "r" >>,
      << "l", "i", "b", ".", "M", "i", "s", "s", "i", "n", "g" >>,
      << "n", "o", "p", "e", ".", "T", "h", "i", "n", "g" >> }

ItemLists == UNION {[1..n -> Items] : n \in 0..MaxItems}

\* the values of --app_name (nargs=1): not given, or a list of one name
AppNames == {<< >>, << << "a" >> >>, << s_lib >>}

\* serializer.rsplit(".", 1): the text before the last dot and the text after
\* it; one part only when there is no dot
RSplit(s) ==
    IF "." \in {s[i] : i \in 1..Len(s)}
    THEN LET d == CHOOSE i \in 1..Len(s) : s[i] = "." /\ \A j \in (i + 1)..Len(s) : s[j] # "."
         IN  << SubSeq(s, 1, d - 1), SubSeq(s, d + 1, Len(s)) >>
    ELSE << s >>

\* the attribute of the name in dir(module)
HasAttr(attrs, name) == \E i \in 1..Len(attrs) : attrs[i].name = name

GetAttr(attrs, name) == attrs[CHOOSE i \in 1..Len(attrs) : attrs[i].name = name]

\* what _get_app_serializers returns, and the modules that it imported
Scan(serializers_found, scanned) == [serializers |-> serializers_found, scanned |-> scanned]

ScanJoin(x, y) == Scan(x.serializers \o y.serializers, x.scanned \o y.scanned)

\* the class of the attribute is one of the module and a BaseSerializer
OwnSerializer(module_name, attr) ==
    IF /\ attr.kind = "class"
       /\ Contains(Classes[attr.what].module, module_name)
    THEN Scan(<< module_name \o << "." >> \o attr.name >>, << >>)
    ELSE Scan(<< >>, << >>)

RECURSIVE get_app_serializers(_)
RECURSIVE ScanAttrs(_, _, _)
\* the loop of _get_app_serializers over dir(module), from attribute i on
ScanAttrs(module_name, attrs, i) ==
    IF i > Len(attrs) THEN Scan(<< >>, << >>)
    ELSE IF StartsWith(attrs[i].name, << "_" >>) THEN ScanAttrs(module_name, attrs, i + 1)
    ELSE ScanJoin(
             ScanJoin(IF attrs[i].kind = "module" /\ Contains(attrs[i].what, module_name)
                      THEN get_app_serializers(module_name \o << "." >> \o attrs[i].name)
                      ELSE Scan(<< >>, << >>),
                      OwnSerializer(module_name, attrs[i])),
             ScanAttrs(module_name, attrs, i + 1))

get_app_serializers(module_name) ==
    IF Contains(module_name, << "r", "e", "s", "t", "_", "f", "r", "a", "m", "e", "w", "o", "r", "k" >>) \/ ~Has(Modules, module_name)
    THEN Scan(<< >>, << >>)
    ELSE ScanJoin(Scan(<< >>, << module_name >>),
                  ScanAttrs(module_name, Get(Modules, module_name), 1))

\* the command as it runs: the registry, the files written (module name and
\* text), the lines of stdout, the modules scanned, the exception raised
Run(reg, files, out, scanned, error) ==
    [reg |-> reg, files |-> files, out |-> out, scanned |-> scanned, error |-> error]

\* the end of _generate_ts: generate_ts has written the file of the module,
\* or raised with the file opened
Generate(st, module_name, serializer_name, g) ==
    Run(g.reg, Put(st.files, module_name, g.text),
        IF g.err THEN st.out
        ELSE Append(st.out, << "[", "+", "]", " " >> \o module_name \o << "." >> \o serializer_name),
        st.scanned,
        IF g.err THEN "Exception" ELSE "")

generate_item(st, module_name, serializer_name, o) ==
    IF ~Has(Modules, module_name)
    THEN [st EXCEPT !.out = Append(@, << "M", "o", "d", "u", "l", "e", " " >> \o module_name \o << " ", "n", "o", "t", " ", "f", "o", "u", "n", "d", ",", " ", "s", "k", "i", "p" >>)]
    ELSE IF ~HasAttr(Get(Modules, module_name), serializer_name)
    THEN [st EXCEPT !.error = "AttributeError"]
    \* issubclass(cls, serializers.Serializer) of what is no class
    ELSE IF GetAttr(Get(Modules, module_name), serializer_name).kind # "class"
    THEN [st EXCEPT !.error = "TypeError"]
    ELSE Generate(st, module_name, serializer_name,
                  generate_ts(ts_interface(st.reg, module_name, << >>,
                                           GetAttr(Get(Modules, module_name),
                                                   serializer_name).what),
                              module_name, o))

\* the loop of handle over the serializers, from item i on
RECURSIVE GenerateItems(_, _, _, _)
GenerateItems(st, items, i, o) ==
    IF i > Len(items) \/ st.error # "" THEN st
    ELSE IF Len(RSplit(items[i])) # 2 THEN [st EXCEPT !.error = "ValueError"]
    ELSE GenerateItems(generate_item(st, RSplit(items[i])[1], RSplit(items[i])[2], o),
                       items, i + 1, o)

\* serializers += self._get_app_serializers(app.name) for the apps of the project
RECURSIVE AllApps(_, _)
AllApps(found, i) ==
    IF i > Len(AppConfigs) THEN found
    ELSE IF ~AppConfigs[i].in_project THEN AllApps(found, i + 1)
    ELSE AllApps(ScanJoin(found, get_app_serializers(AppConfigs[i].name)), i + 1)

\* the check made for the three selectors at once only
conflict_when_all_three(serializers_arg, app_name, all) ==
    Len(serializers_arg) > 0 /\ Len(app_name) > 0 /\ all

\* sum([bool(serializers), bool(app_name), bool(all)]) != 1
Conflict(serializers_arg, app_name, all) ==
    (IF Len(serializers_arg) > 0 THEN 1 ELSE 0) + (IF Len(app_name) > 0 THEN 1 ELSE 0)
    + (IF all THEN 1 ELSE 0) # 1

\* the serializers that handle goes over, with the modules scanned for them
Selected(serializers_arg, app_name, all) ==
    IF Len(app_name) > 0 THEN get_app_serializers(app_name[1])
    ELSE IF all THEN AllApps(Scan(serializers_arg, << >>), 1)
    ELSE Scan(serializers_arg, << >>)

HandleItems(reg, found, o) ==
    GenerateItems(Run(reg, << >>, << >>, found.scanned, ""), found.serializers, 1, o)

handle(reg, serializers_arg, app_name, all, o) ==
    IF Conflict(serializers_arg, app_name, all)
    THEN Run(reg, << >>, << >>, << >>, "CommandError")
    ELSE HandleItems(reg, Selected(serializers_arg, app_name, all), o)

\* the command ends: the registry is as it left it, last tells the arguments
\* and the outcome
Handled(serializers_arg, app_name, all, o, r) ==
    /\ Becomes(r.reg)
    /\ last' = [op |-> "handle", context |-> << >>, cls |-> "", ts_type |-> << >>,
                options |-> o, text |-> << >>, err |-> r.error # "",
                serializers |-> serializers_arg, app_name |-> app_name, all |-> all,
                files |-> r.files, out |-> r.out, scanned |-> r.scanned,
                error |-> r.error]
    /\ UNCHANGED decorated

\* manage.py generate_ts, in a process that has made no call yet
Handle ==
    /\ last.op = "import"
    /\ \E serializers_arg \in ItemLists, app_name \in AppNames, all \in BOOLEAN :
          \E o \in GenOptions :
              Handled(serializers_arg, app_name, all, o,
                      handle(Reg, serializers_arg, app_name, all, o))

NextCommand == Handle

SpecCommand == Init /\ [][NextCommand]_vars

(* ------------------------------ claims ------------------------------- *)

\* the generation calls
Generations == {"get_ts", "generate_ts"}

\* C1: a generation call that follows the same call, for the same context and
\* with the same options, no registration call between them, yields the text
\* that the first one yielded
C1_SameTextTwice ==
    [][(/\ last.op \in Generations
        /\ last'.op = last.op
        /\ last'.context = last.context
        /\ last'.options = last.options)
       => (last'.text = last.text /\ last'.err = last.err)]_vars

\* the header of the interface of a class, as __get_ts_interface writes it
Header(cls, o) ==
    s_interface \o get_trimmed_name(Classes[cls].name, o.trim_serializer_output) \o s_open

\* the number of entries of a list that are x
Occurrences(xs, x) == Cardinality({i \in 1..Len(xs) : xs[i] = x})

\* C2: a class that ts_interface has just been applied to under a context,
\* and that is registered under it by this call alone (so it did not enter
\* the context by on-demand registration), is emitted with the export marker
\* in the output of that context, whatever was generated before for other
\* contexts
C2_ExplicitIsExported ==
    (/\ last.op = "ts_interface"
     /\ last.cls \in DOMAIN exported
     /\ Occurrences(Get(serializers, last.context), last.cls) = 1)
    => \A o \in GenOptions :
          Contains(get_ts(Reg, last.context, o).text, s_export \o Header(last.cls, o))

\* C3: the text generated for a context holds the interface of each class
\* registered under it exactly once, however often ts_interface was applied
\* to the class under that context
C3_InterfaceOnce ==
    \A i \in 1..Len(serializers) : \A o \in GenOptions :
        \A j \in 1..Len(serializers[i][2]) :
            Count(get_ts(Reg, serializers[i][1], o).text,
                  Header(serializers[i][2][j], o)) = 1

\* the class has a mapping in __field_mappings[context]
HasMapping(fm, context, cls) == Has(fm, context) /\ Has(Get(fm, context), cls)

\* C4: a mapping stored for a (context, field class) pair is never changed by
\* a later call, and a ts_field call for a pair that has a mapping, whatever
\* its target type, leaves all the generated text as it was
C4_FirstMappingWins ==
    [][/\ \A context \in Contexts, cls \in FieldInputs :
            HasMapping(field_mappings, context, cls)
            => /\ HasMapping(field_mappings', context, cls)
               /\ Get(Get(field_mappings', context), cls)
                  = Get(Get(field_mappings, context), cls)
       /\ (last'.op = "ts_field" /\ HasMapping(field_mappings, last'.context, last'.cls))
          => \A context \in Contexts, o \in GenOptions :
                get_ts(Reg', context, o).text = get_ts(Reg, context, o).text]_vars

\* a ts_field call with another target type was made for a pair that had a
\* mapping, under a context that has a serializer with a field of the class
C4_LaterCallIgnored ==
    /\ last.op = "ts_field"
    /\ last.cls = "StampField"
    /\ HasMapping(field_mappings, last.context, last.cls)
    /\ Get(Get(field_mappings, last.context), last.cls) # last.ts_type
    /\ InList(GetOr(serializers, last.context, << >>), "Record")

\* the field has an entry in __mapping_overrides[context][serializer]
HasOverride(context, serializer, field_name) ==
    /\ Has(mapping_overrides, context)
    /\ Has(Get(mapping_overrides, context), serializer)
    /\ Has(Get(Get(mapping_overrides, context), serializer), field_name)

\* rule k of the seven matches the field, t being its element type
RuleMatches(k, context, serializer, field, t) ==
    CASE k = 1 -> \E i \in 1..Len(serializers) : InList(serializers[i][2], t)
      [] k = 2 -> HasMapping(field_mappings, context, t)
      [] k = 3 -> HasOverride(context, serializer, field.name)
      [] k = 4 -> t = "serializers.PrimaryKeyRelatedField"
      [] k = 5 -> field.has_choices
      [] k = 6 -> t = "serializers.SerializerMethodField"
      [] k = 7 -> TRUE

\* the base type that rule k gives the field
RuleType(k, context, serializer, field, t, o) ==
    CASE k = 1 -> get_trimmed_name(Classes[t].name, o.trim_serializer_output)
      [] k = 2 -> Get(Get(field_mappings, context), t)
      [] k = 3 -> Get(Get(Get(mapping_overrides, context), serializer), field.name)
      [] k = 4 -> s_number
      [] k = 5 -> ChoiceType(field.name, field.choices, o)
      [] k = 6 -> get_nested_serializer_field(Reg, context, o.enum_choices, o.enum_values,
                                              o.enum_keys, field, field.name, FALSE,
                                              serializer, o.trim_serializer_output).ts_type
      [] k = 7 -> IF t \in DOMAIN mappings_by_key THEN mappings_by_key[t] ELSE s_any

\* the first of the seven rules that matches the field
FirstRule(context, serializer, field, t) ==
    CHOOSE k \in 1..7 :
        /\ RuleMatches(k, context, serializer, field, t)
        /\ \A j \in 1..(k - 1) : ~RuleMatches(j, context, serializer, field, t)

\* C5: for every field of every registered serializer, the base type that
\* __process_field selects is the one of the first rule that matches, in the
\* order: registered schema (any context), field mapping of the context,
\* override of the context, primary key relation, choices, method field,
\* static table with default any
C5_FirstMatchingRule ==
    \A i \in 1..Len(serializers) : \A j \in 1..Len(serializers[i][2]) :
        LET context    == serializers[i][1]
            serializer == serializers[i][2][j]
        IN  \A n \in 1..Len(Classes[serializer].fields) : \A o \in GenOptions :
                LET field == Classes[serializer].fields[n]
                    t     == FieldKind(field).field_type
                IN  FieldType(Reg, field.name, field, context, serializer, o,
                              FieldKind(field).is_many, t).ts_type
                    = RuleType(FirstRule(context, serializer, field, t),
                               context, serializer, field, t, o)

\* text was generated for a context in which the field part of Record matches
\* the first three rules at once
C5_ThreeRulesMatch ==
    /\ last.op \in Generations
    /\ InList(GetOr(serializers, last.context, << >>), "Record")
    /\ \E i \in 1..Len(serializers) :
          serializers[i][1] # last.context /\ InList(serializers[i][2], "PartSerializer")
    /\ HasMapping(field_mappings, last.context, "PartSerializer")
    /\ HasOverride(last.context, "Record", << "p", "a", "r", "t" >>)

\* the eight combinations of enum_choices, enum_values and enum_keys
EnumOptions ==
    {Options(FALSE, FALSE, ec, ev, ek) : ec \in BOOLEAN, ev \in BOOLEAN, ek \in BOOLEAN}

\* the inline union of the literal keys of a choice set
UnionOfKeys(choices) ==
    Join([i \in 1..Len(choices) |->
             IF choices[i][1].t = "str" THEN s_dq \o choices[i][1].s \o s_dq
             ELSE IntToStr(choices[i][1].n)], s_bar)

\* the type that the interface declares for a field: what __process_field returns
DeclaredType(context, serializer, field, o) ==
    process_field(Reg, field.name, field, context, serializer, o).ts_type

\* the fields of the registered serializers: context, serializer and field
RegisteredFields ==
    UNION {UNION {{<< serializers[i][1], serializers[i][2][j],
                     Classes[serializers[i][2][j]].fields[n] >> :
                        n \in 1..Len(Classes[serializers[i][2][j]].fields)} :
                  j \in 1..Len(serializers[i][2])} :
           i \in 1..Len(serializers)}

ChoiceFieldOf(field_name, choices_class) ==
    [Field(field_name, "serializers.ChoiceField")
        EXCEPT !.has_choices = TRUE, !.choices = Get(ChoicesClasses, choices_class)]

\* C7: a method field whose accessor is annotated with a Choices class gets,
\* under each of the eight combinations of enum_choices, enum_values and
\* enum_keys, the declared type that a ChoiceField of the same name and
\* choices gets
C7_MethodFieldAsChoiceField ==
    \A f \in RegisteredFields : \A o \in EnumOptions :
        LET field    == f[3]
            accessor == Accessor(Reg, f[2], s_get_ \o field.name)
        IN  (/\ field.cls = "serializers.SerializerMethodField"
             /\ ~accessor.absent
             /\ IsChoicesClass(accessor.ret))
            => DeclaredType(f[1], f[2], field, o)
               = DeclaredType(f[1], f[2], ChoiceFieldOf(field.name, accessor.ret.id), o)

\* C8: for every context and option set, the str that get_ts returns is the
\* text that generate_ts writes to its file
C8_GetTsIsGenerateTs ==
    \A context \in Contexts, o \in GenOptions :
        /\ get_ts(Reg, context, o).text = generate_ts(Reg, context, o).text
        /\ get_ts(Reg, context, o).err = generate_ts(Reg, context, o).err

\* the lines of a text
Lines(text) ==
    LET starts == {1} \cup {i + 1 : i \in {j \in 1..Len(text) : text[j] = "\n"}}
        End(b) == CHOOSE e \in b..(Len(text) + 1) :
                      /\ e = Len(text) + 1 \/ text[e] = "\n"
                      /\ \A k \in b..(e - 1) : text[k] # "\n"
    IN  {SubSeq(text, b, End(b) - 1) : b \in starts}

\* the text has an import line that names the class among those it imports
\* from the origin context
ImportsFrom(text, origin, name) ==
    \E names \in Lines(text) :
        LET tail == s_from \o origin \o << "'", ";" >>
        IN  /\ StartsWith(names, s_import)
            /\ EndsWith(names, tail)
            /\ Len(names) >= Len(s_import) + Len(tail)
            /\ Contains(s_comma
                        \o SubSeq(names, Len(s_import) + 1, Len(names) - Len(tail))
                        \o s_comma,
                        s_comma \o name \o s_comma)

\* the contexts other than this one under which the class is registered
OtherContexts(context, cls) ==
    {serializers[i][1] : i \in {j \in 1..Len(serializers) :
        serializers[j][1] # context /\ InList(serializers[j][2], cls)}}

\* C9: when the accessor of a method field of a serializer registered under
\* a context is annotated with a serializer class that is registered under
\* another context and not under this one, the file generated for this
\* context has an import line naming that other context and the class, and
\* the line of the field gives it the (possibly trimmed) name of the class
C9_CrossContextImport ==
    \A f \in RegisteredFields : \A o \in GenOptions :
        LET field    == f[3]
            accessor == Accessor(Reg, f[2], s_get_ \o field.name)
            text     == generate_ts(Reg, f[1], o).text
            name     == get_trimmed_name(Classes[accessor.ret.id].name,
                                         o.trim_serializer_output)
        IN  (/\ field.cls = "serializers.SerializerMethodField"
             /\ ~accessor.absent
             /\ accessor.ret.k = "class"
             /\ accessor.ret.id \in DOMAIN exported
             /\ ~InList(Get(serializers, f[1]), accessor.ret.id)
             /\ OtherContexts(f[1], accessor.ret.id) # {})
            => /\ \E origin \in OtherContexts(f[1], accessor.ret.id) :
                     ImportsFrom(text, origin, name)
               /\ Contains(text, FieldLine(field, [field_name |-> field.name,
                                                   ts_type |-> name]))

\* the places of a text where a line starts
LineStarts(text) == {1} \cup {i + 1 : i \in {j \in 1..Len(text) : text[j] = "\n"}}

\* the declarations of S in the order of their first places in the block
InBlockOrder(block, S) ==
    LET starts   == LineStarts(block)
        Place(t) == CHOOSE b \in starts :
                        /\ OccursAt(block, t, b)
                        /\ \A c \in starts : c < b => ~OccursAt(block, t, c)
        place    == [t \in S |-> Place(t)]
    IN  [k \in 1..Cardinality(S) |->
            CHOOSE t \in S : Cardinality({u \in S : place[u] < place[t]}) = k - 1]

\* the block is made of the declarations of the list d, one after the
\* other, d is in ascending order, and its deduplication gives the block
BlockOf(block, d) ==
    /\ block = Join(d, s_nl) \o s_nl \o s_nl
    /\ \A k \in 1..(Len(d) - 1) : StrLess(d[k], d[k + 1])
    /\ remove_duplicate_enums(d) = block

\* C10: the enum block of the output of a context is made of the distinct
\* enum declarations of the context, each once, in ascending order of the
\* text, whatever fields and serializers produced them and in whatever
\* order they were registered; the deduplication of that list gives the
\* same block
C10_EnumBlock ==
    \A context \in Contexts, o \in EnumOptions :
        LET e     == generate_enums(Reg, context, o.enum_choices, o.enum_values,
                                    o.enum_keys).enums
            S     == {e[i] : i \in 1..Len(e)}
            block == Generated(Reg, context, o).enums_string
        IN  /\ S = {} => block = << >>
            /\ (S # {} /\ (o.enum_choices \/ o.enum_values \/ o.enum_keys))
               => /\ \A t \in S : \E c \in LineStarts(block) : OccursAt(block, t, c)
                  /\ BlockOf(block, InBlockOrder(block, S))
                  /\ StartsWith(get_ts(Reg, context, o).text, block)

\* text was generated with all the enums on for a context under which
\* Ticket and Event are registered, Event first: their action fields give
\* the same declarations, and Event's come first in the list
C10_SameEnumTwice ==
    /\ last.op \in Generations
    /\ last.options.enum_choices /\ last.options.enum_values /\ last.options.enum_keys
    /\ GetOr(serializers, last.context, << >>) = << "Event", "Ticket" >>
    /\ LET e == generate_enums(Reg, last.context, TRUE, TRUE, TRUE).enums
       IN  Cardinality({e[i] : i \in 1..Len(e)}) < Len(e)


\* the registered fields that have a choice set with a member
ChoiceFields == {f \in RegisteredFields : f[3].has_choices /\ Len(f[3].choices) > 0}

\* the place of the k-th line end of a text
LineEnd(text, k) ==
    CHOOSE j \in 1..Len(text) :
        text[j] = "\n" /\ Cardinality({m \in 1..j : text[m] = "\n"}) = k

\* the line of the i-th member of an enum declaration: the line after the
\* i-th line end
MemberLine(decl, i) == SubSeq(decl, LineEnd(decl, i) + 1, LineEnd(decl, i + 1) - 1)

\* the member name of the line is written in apostrophes
Quoted(line) == Len(line) > Len(s_indent) /\ line[Len(s_indent) + 1] = "'"

\* the characters of a str
Chars(s) == {s[i] : i \in 1..Len(s)}

\* the i-th member of the declaration, when there is a declaration, is quoted
QuotedIn(e, i) == e.some => Quoted(MemberLine(e.s, i))

\* C11: a str key that contains an apostrophe or starts with a digit is
\* quoted wherever it is the member name of an enum (the <Name>ChoiceEnum and
\* <Name>ChoiceEnumValues declarations), and a choice set whose keys are all
\* alphabetic gets unquoted member names from its keys
C11_UnsafeKeyQuoted ==
    \A f \in ChoiceFields :
        LET choices == f[3].choices
            e       == process_choice_field(f[3].name, choices, TRUE, TRUE, TRUE)
            Key(i)  == choices[i][1]
            Unsafe(i) == /\ Key(i).t = "str" /\ Len(Key(i).s) > 0
                         /\ ("'" \in Chars(Key(i).s) \/ IsDigit(Key(i).s[1]))
            Alpha(i)  == /\ Key(i).t = "str" /\ Len(Key(i).s) > 0
                         /\ \A c \in Chars(Key(i).s) : IsAlpha(c)
        IN  /\ \A i \in 1..Len(choices) :
                 Unsafe(i) => QuotedIn(e.ts_enum, i) /\ QuotedIn(e.ts_enum_value, i)
            /\ (\A i \in 1..Len(choices) : Alpha(i))
               => \A i \in 1..Len(choices) :
                     ~Quoted(MemberLine(e.ts_enum.s, i))
                     /\ ~Quoted(MemberLine(e.ts_enum_value.s, i))


\* a stored value as the literal of a member: a str in apostrophes, each of
\* its apostrophes after a backslash, an int in digits
Literal(key) ==
    IF key.t = "str" THEN s_sq \o Replace(key.s, s_sq, s_esc_sq) \o s_sq
    ELSE IntToStr(key.n)

\* a label as written in a member name, its apostrophes after a backslash
LabelText(label) ==
    IF label.t = "str" THEN Replace(label.s, s_sq, s_esc_sq) ELSE IntToStr(label.n)

\* the line of a member of the name and the literal, the name quoted or not
IsMember(line, name, literal) ==
    \E q \in {<< >>, s_sq} : line = s_indent \o q \o name \o q \o s_eq \o literal \o << "," >>

\* every member of the <Name>ChoiceEnumKeys declaration of every registered
\* choice field has the label as its name, spaces replaced by underscores, in
\* upper case or as written, and the stored value as its literal
KeysEnumNames(upper) ==
    \A f \in ChoiceFields :
        LET choices == f[3].choices
            decl    == map_choices_to_enum_keys_by_values(
                           TitleName(f[3].name) \o s_ChoiceEnum \o s_Keys, choices)
        IN  /\ decl.some
            /\ StartsWith(decl.s, s_export_enum \o TitleName(f[3].name) \o s_ChoiceEnum
                                  \o s_Keys \o s_open)
            /\ \A i \in 1..Len(choices) :
                  IsMember(MemberLine(decl.s, i),
                           Replace(IF upper THEN Upper(LabelText(choices[i][2]))
                                   ELSE LabelText(choices[i][2]), s_space, s_underscore),
                           Literal(choices[i][1]))

\* C12 as stated: in the <Name>ChoiceEnumKeys enum each member name is the
\* label with its spaces replaced by underscores and its letter case kept,
\* and each member literal is the stored value
C12_LabelCaseKept == KeysEnumNames(FALSE)

\* C12 as amended: in the <Name>ChoiceEnumKeys enum each member name is the
\* label in upper case with its spaces replaced by underscores, and each
\* member literal is the stored value
C12_LabelUpperCased == KeysEnumNames(TRUE)

\* text was generated with enum_keys on for a context that has Label, and it
\* has the member of the label "Fast lane" of the key "go"
C12_KeysEnumGenerated ==
    /\ last.op \in Generations /\ ~last.err
    /\ last.options.enum_keys
    /\ InList(GetOr(serializers, last.context, << >>), "Label")
    /\ Contains(last.text, s_indent \o << "F", "A", "S", "T", "_", "L", "A", "N", "E" >>
                           \o s_eq \o << "'", "g", "o", "'", "," >>)


\* C13: in the interface of every registered serializer, under every option
\* set, the line of a field that allows null ends with its resolved type,
\* the list marker included, and then " | null", whichever rule resolved the
\* type and whether the field is optional or not; the line of a field that
\* does not allow null ends with the resolved type alone
C13_NullMarkerLast ==
    \A i \in 1..Len(serializers) : \A j \in 1..Len(serializers[i][2]) :
        LET context    == serializers[i][1]
            serializer == serializers[i][2][j]
        IN  \A n \in 1..Len(Classes[serializer].fields) : \A o \in GenOptions :
                LET field == Classes[serializer].fields[n]
                    p     == process_field(Reg, field.name, field, context, serializer, o)
                    text  == get_ts_interface(Reg, serializer, context, o)
                    line  == MemberLine(text.text, n)
                    many  == FieldKind(field).is_many
                IN  ~text.err
                    => /\ StartsWith(line, s_indent \o p.field_name)
                       /\ field.allow_null
                          => /\ EndsWith(line, s_colon \o p.ts_type \o s_or_null \o s_semi)
                             /\ many => EndsWith(line, s_list \o s_or_null \o s_semi)
                       /\ ~field.allow_null
                          => EndsWith(line, s_colon \o p.ts_type \o s_semi)

\* text was generated for a context in which Sheet has a mapping for
\* StampField and its overrides, and the text has the lines of an optional
\* enum that allows null and of a list with an override that allows null
C13_NullableKinds ==
    /\ last.op \in Generations /\ ~last.err
    /\ last.options.enum_choices
    /\ InList(GetOr(serializers, last.context, << >>), "Sheet")
    /\ HasMapping(field_mappings, last.context, "StampField")
    /\ HasOverride(last.context, "Sheet", << "t", "a", "g", "s" >>)
    /\ Contains(last.text, << "s", "t", "a", "t", "e", "?", ":", " ", "S", "t", "a", "t", "e", "C", "h", "o", "i", "c", "e", "E", "n", "u", "m", " ", "|", " ", "n", "u", "l", "l", ";" >>)
    /\ Contains(last.text, << "t", "a", "g", "s", ":", " ", "D", "a", "t", "e", "[", "]", " ", "|", " ", "n", "u", "l", "l", ";" >>)


\* C14: for every field of every registered serializer that no registered
\* schema and no field mapping types and that has an override, the type that
\* __process_field returns is the override string itself, whatever the kind
\* of the field, list-valued fields included
C14_OverrideVerbatim ==
    \A i \in 1..Len(serializers) : \A j \in 1..Len(serializers[i][2]) :
        LET context    == serializers[i][1]
            serializer == serializers[i][2][j]
        IN  \A n \in 1..Len(Classes[serializer].fields) : \A o \in GenOptions :
                LET field == Classes[serializer].fields[n]
                    t     == FieldKind(field).field_type
                IN  FirstRule(context, serializer, field, t) = 3
                    => process_field(Reg, field.name, field, context, serializer, o).ts_type
                       = Get(Get(Get(mapping_overrides, context), serializer), field.name)


\* the number of --serializers, --app_name and --all that the command was given
Selectors(call) ==
    Cardinality({k \in 1..3 : CASE k = 1 -> Len(call.serializers) > 0
                                [] k = 2 -> Len(call.app_name) > 0
                                [] k = 3 -> call.all})

\* C15: a command given more than one of --serializers, --app_name and
\* --all raises CommandError with no module scanned, no schema registered,
\* no file written and nothing reported
C15_ConflictFailsFirst ==
    (last.op = "handle" /\ Selectors(last) > 1)
    => /\ last.error = "CommandError"
       /\ last.scanned = << >> /\ last.files = << >> /\ last.out = << >>
       /\ serializers = << >> /\ field_mappings = << >> /\ mapping_overrides = << >>
       /\ imports = << >>
       /\ \A c \in DOMAIN exported : exported[c]

\* the command was given --all and a --serializers list of two items that
\* would both generate
C15_AllAndSerializers ==
    /\ last.op = "handle"
    /\ last.all /\ Len(last.app_name) = 0 /\ Len(last.serializers) = 2
    /\ \A k \in 1..2 : Has(Modules, RSplit(last.serializers[k])[1])
                       /\ HasAttr(Get(Modules, RSplit(last.serializers[k])[1]),
                                  RSplit(last.serializers[k])[2])

\* the item names a module that exists and a class that the module has
Resolves(item) ==
    /\ Has(Modules, RSplit(item)[1])
    /\ HasAttr(Get(Modules, RSplit(item)[1]), RSplit(item)[2])

\* C16: a command given --serializers alone skips, with a warning for each,
\* the items whose module cannot be imported or whose name the module does not
\* have, and registers and generates every other item of the list
C16_BadItemSkipped ==
    (last.op = "handle" /\ Selectors(last) = 1 /\ Len(last.serializers) > 0)
    => /\ ~last.err
       /\ Len(last.out) = Len(last.serializers)
       /\ \A k \in 1..Len(last.serializers) :
             LET item == last.serializers[k]
             IN  IF Resolves(item)
                 THEN /\ last.out[k] = << "[", "+", "]", " " >> \o item
                      /\ InList(GetOr(serializers, RSplit(item)[1], << >>),
                                GetAttr(Get(Modules, RSplit(item)[1]), RSplit(item)[2]).what)
                      /\ Has(last.files, RSplit(item)[1])
                 ELSE ~StartsWith(last.out[k], << "[", "+", "]" >>)


\* xs is the beginning of ys
IsPrefix(xs, ys) == Len(xs) <= Len(ys) /\ xs = SubSeq(ys, 1, Len(xs))

\* the interfaces generated for the context are those of the serializers of
\* the context, one for each entry and in the order of the list, the entries
\* that the generation itself appends after those that were there
InListOrder(context, o, g) ==
    g.err \/ /\ IsPrefix(GetOr(serializers, context, << >>),
                         GetOr(g.reg.serializers, context, << >>))
             /\ Len(g.interfaces) = Len(GetOr(g.reg.serializers, context, << >>))
             /\ \A k \in 1..Len(g.interfaces) :
                   \/ StartsWith(g.interfaces[k],
                                 Header(Get(g.reg.serializers, context)[k], o))
                   \/ StartsWith(g.interfaces[k],
                                 s_export \o Header(Get(g.reg.serializers, context)[k], o))

\* a step leaves the serializers of the context in their places, and a
\* registration under the context puts its class after them
AppendOnly(context) ==
    /\ IsPrefix(GetOr(serializers, context, << >>), GetOr(serializers', context, << >>))
    /\ (last'.op = "ts_interface" /\ last'.context = context
        /\ IsSerializerClass(Reg, last'.cls))
       => GetOr(serializers', context, << >>)
          = Append(GetOr(serializers, context, << >>), last'.cls)

\* C17: in every state the interfaces of the output of a context are in the
\* order of registration of the schemas of the context, and no step, be it a
\* registration or a generation, removes or moves a schema registered before
C17_RegistrationOrder ==
    /\ [](\A context \in Contexts : \A o \in GenOptions :
            InListOrder(context, o, generate_interfaces(Reg, context, o)))
    /\ [][\A context \in Contexts : AppendOnly(context)]_vars

\* text was generated for a context whose list has a class that was
\* registered by a call and then one that a generation registered
C17_TwoRegistered ==
    /\ last.op \in Generations /\ ~last.err
    /\ Len(GetOr(serializers, last.context, << >>)) >= 2
    /\ \E k \in 2..Len(GetOr(serializers, last.context, << >>)) :
          /\ ~exported[Get(serializers, last.context)[k]]
          /\ Get(serializers, last.context)[1] = "Outer"


\* the accessor of a method field is annotated with a list, tuple or set of T
ReturnsContainer(accessor) ==
    /\ ~accessor.absent
    /\ accessor.ret.k = "generic"
    /\ accessor.ret.id \in {"list", "tuple", "set"}

\* the type of a method field of the name whose accessor is annotated with T
ElementType(context, field_name, T, o) ==
    NestedType(Reg, context, o.enum_choices, o.enum_values, o.enum_keys, field_name,
               FALSE, o.trim_serializer_output, T, FALSE).ts_type

\* C18: a method field whose accessor is annotated with a list, tuple or set
\* of T is declared with the type that T resolves to followed by one "[]",
\* be T a primitive, a serializer class or a Choices class
C18_ContainerOfT ==
    \A f \in RegisteredFields : \A o \in EnumOptions :
        LET field    == f[3]
            accessor == Accessor(Reg, f[2], s_get_ \o field.name)
        IN  (field.cls = "serializers.SerializerMethodField" /\ ReturnsContainer(accessor))
            => /\ DeclaredType(f[1], f[2], field, o)
                  = ElementType(f[1], field.name, accessor.ret.args[1], o) \o s_list
               /\ ~EndsWith(ElementType(f[1], field.name, accessor.ret.args[1], o), s_list)


\* a str that has a character of the punctuation set or starts with a digit
NeedsQuotes(v) ==
    /\ v.t = "str" /\ Len(v.s) > 0
    /\ (Chars(v.s) \cap spec_chars # {} \/ IsDigit(v.s[1]))

\* the members of the declaration, when there is one, whose place is in the
\* set are all quoted if quoted is true and all unquoted if it is false
AllQuotedIs(e, places, quoted) ==
    e.some => \A i \in places : Quoted(MemberLine(e.s, i)) = quoted

\* C19: in each enum declaration of a registered choice field the member
\* names that come from keys (the str keys of <Name>ChoiceEnum, all of
\* <Name>ChoiceEnumValues) are all quoted when some str key has a character
\* of the punctuation set or starts with a digit and all unquoted otherwise;
\* the names that come from labels (the int keys of <Name>ChoiceEnum, all of
\* <Name>ChoiceEnumKeys) are so according to the str labels alone
C19_QuotingAllOrNothing ==
    \A f \in ChoiceFields :
        LET choices == f[3].choices
            e       == process_choice_field(f[3].name, choices, TRUE, TRUE, TRUE)
            all     == 1..Len(choices)
            strs    == {i \in all : choices[i][1].t = "str"}
            keys    == \E i \in all : NeedsQuotes(choices[i][1])
            labels  == \E i \in all : NeedsQuotes(choices[i][2])
        IN  /\ e.ts_enum.some /\ e.ts_enum_key.some
            /\ AllQuotedIs(e.ts_enum, strs, keys)
            /\ AllQuotedIs(e.ts_enum, all \ strs, labels)
            /\ AllQuotedIs(e.ts_enum_value, all, keys)
            /\ AllQuotedIs(e.ts_enum_key, all, labels)

\* text was generated with the three enum options on for a context that has
\* Label, and it has a declaration with quoted names from labels for unquoted
\* keys and one with quoted names from keys for unquoted labels
C19_BothDecisions ==
    /\ last.op \in Generations /\ ~last.err
    /\ last.options.enum_choices /\ last.options.enum_values /\ last.options.enum_keys
    /\ InList(GetOr(serializers, last.context, << >>), "Label")
    /\ Contains(last.text, s_indent \o << "'", "1", "S", "T", "'", " ", "=", " ", "'", "l", "o", "w", "'", "," >>)
    /\ Contains(last.text, s_indent \o << "L", "O", "W", " ", "=", " ", "'", "l", "o", "w", "'", "," >>)
    /\ Contains(last.text, s_indent \o << "'", "C", "D", "'", " ", "=", " ", "'", "c", "d", "'", "," >>)
    /\ Contains(last.text, s_indent \o << "C", "D", " ", "=", " ", "'", "c", "d", "'", "," >>)


\* C20: in every state, for every context and every set of options,
\* get_ts and generate_ts end without raising
C20_GenerationNeverRaises ==
    \A context \in Contexts : \A o \in EnumOptions :
        /\ ~get_ts(Reg, context, o).err
        /\ ~generate_ts(Reg, context, o).err


\* the call of get_ts has returned
Passed == last.op = "get_ts" /\ "interfaces" \in DOMAIN last

\* the interface that the pass built at place k is that of the entry at place
\* k of the list of the context
RendersEntry(k) ==
    \/ StartsWith(last.interfaces[k],
                  Header(Get(serializers, last.context)[k], last.options))
    \/ StartsWith(last.interfaces[k],
                  s_export \o Header(Get(serializers, last.context)[k], last.options))

\* the turns that the pass can still take: the entries from the iterator on,
\* and two for each class of the process that the list of the context lacks,
\* since a turn can append such a class, which then takes a turn of its own
TurnsLeft ==
    Len(GetOr(serializers, last.context, << >>)) + 1 - last.i
    + 2 * Cardinality({c \in DOMAIN exported :
                          ~InList(GetOr(serializers, last.context, << >>), c)})

\* C21: a generation call takes finitely many turns, since each turn of the
\* pass leaves fewer turns to take than there were, and never fewer than
\* none, also when it appends to the list; and when the call has returned it
\* has built one interface for each entry of the list of the context, in the
\* order of the list, the entries appended during the call included
C21_PassEndsEachOnce ==
    /\ [](Running => TurnsLeft >= 0)
    /\ [][(Running /\ last'.op = "pass") => (~last'.err /\ TurnsLeft' < TurnsLeft)]_vars
    /\ [](Passed => /\ ~last.err
                    /\ Len(last.interfaces)
                       = Len(GetOr(serializers, last.context, << >>))
                    /\ \A k \in 1..Len(last.interfaces) : RendersEntry(k))

\* a call has returned whose list grew by two while it ran: Ping was
\* registered, and the pass appended Pong and Node
C21_GrewWhileIterated ==
    /\ Passed
    /\ last.started = 1
    /\ Get(serializers, last.context) = << "Ping", "Pong", "Node" >>


\* the registration calls
Registrations == {"ts_interface", "ts_field"}

\* the module state after the step
RegNext == Registry(serializers', field_mappings', mapping_overrides', imports', exported')

\* what get_ts returns and what generate_ts writes for the context, for each
\* set of options
TextsFor(reg, context) ==
    [o \in GenOptions |-> << get_ts(reg, context, o).text, get_ts(reg, context, o).err,
                             generate_ts(reg, context, o).text >>]

\* the step is a registration under a context other than this one that
\* changes what is generated for this one
ChangesOther(context) ==
    /\ last'.op \in Registrations
    /\ last'.context # context
    /\ TextsFor(RegNext, context) # TextsFor(Reg, context)

\* C22 as stated: no registration under a context changes the text generated
\* for another context
C22_NoRegistrationCrosses ==
    [][\A context \in Contexts : ~ChangesOther(context)]_vars

\* the class that the field of the serializer has as its type: the class of a
\* nested serializer, or the one that the accessor of a method field returns
TypeOfField(serializer, field) ==
    IF field.cls = "serializers.SerializerMethodField"
    THEN Unwrap(Accessor(Reg, serializer,
                         IF Len(field.method_name) > 0 THEN field.method_name
                         ELSE s_get_ \o field.name).ret).return_type.id
    ELSE FieldKind(field).field_type

\* the class is the type of a field of a serializer that a generation for the
\* context renders
IsTypeOfFieldIn(context, cls) ==
    \E o \in GenOptions :
        LET rendered == GetOr(get_ts(Reg, context, o).reg.serializers, context, << >>)
        IN  \E k \in 1..Len(rendered) :
               \E i \in 1..Len(Classes[rendered[k]].fields) :
                  TypeOfField(rendered[k], Classes[rendered[k]].fields[i]) = cls

\* C22, amended: a ts_field registration under a context never changes the
\* text generated for another context, and a ts_interface registration
\* changes it only when the class registered is the type of a field of a
\* serializer rendered for that other context
C22_OnlySchemasCross ==
    [][\A context \in Contexts :
          ChangesOther(context)
          => /\ last'.op = "ts_interface"
             /\ IsTypeOfFieldIn(context, last'.cls)]_vars

\* a mapping for PartSerializer was registered under a context while Record,
\* whose fields have that type, is registered under the other one and has no
\* mapping of its own there
C22_MappingUnderOtherContext ==
    /\ last.op = "ts_field" /\ last.cls = "PartSerializer"
    /\ last.context = ctx_a
    /\ HasMapping(field_mappings, ctx_a, "PartSerializer")
    /\ Has(serializers, ctx_b) /\ InList(Get(serializers, ctx_b), "Record")
    /\ ~HasMapping(field_mappings, ctx_b, "PartSerializer")


\* the type without the list marker
ElementOf(ts_type) ==
    IF EndsWith(ts_type, s_list) THEN SubSeq(ts_type, 1, Len(ts_type) - Len(s_list))
    ELSE ts_type

\* the enum type names that a field of this name can be declared with
EnumTypeNames(field_name) ==
    {TitleName(field_name) \o s_ChoiceEnum,
     TitleName(field_name) \o s_ChoiceEnum \o s_Values,
     TitleName(field_name) \o s_ChoiceEnum \o s_Keys}

\* the block has a declaration of the name: an enum, or the placeholder of an
\* empty choice set
DeclaredIn(block, name) ==
    \E b \in LineStarts(block) :
        \/ OccursAt(block, s_export_enum \o name \o s_open, b)
        \/ OccursAt(block, s_let \o name \o s_eq_any, b)

\* C23: for every registered field and every combination of the enum flags,
\* when the generation does not raise and the field is declared with an enum
\* type name, the enum block of that output declares the name
C23_EnumTypeDeclared ==
    \A f \in RegisteredFields : \A o \in EnumOptions :
        (/\ ~Generated(Reg, f[1], o).err
         /\ ElementOf(DeclaredType(f[1], f[2], f[3], o)) \in EnumTypeNames(f[3].name))
        => DeclaredIn(Generated(Reg, f[1], o).enums_string,
                      ElementOf(DeclaredType(f[1], f[2], f[3], o)))


\* the line of a text that starts at place b
LineAt(text, b) ==
    SubSeq(text, b, (CHOOSE e \in b..(Len(text) + 1) :
                        /\ e = Len(text) + 1 \/ text[e] = "\n"
                        /\ \A k \in b..(e - 1) : text[k] # "\n") - 1)

\* the places of the block where a declaration starts: an enum, or the
\* placeholder of an empty choice set
Declarations(block) ==
    {b \in LineStarts(block) :
        OccursAt(block, s_export_enum, b) \/ OccursAt(block, s_let, b)}

\* the name that the first line of a declaration declares
DeclaredName(line) ==
    IF StartsWith(line, s_export_enum)
    THEN SubSeq(line, Len(s_export_enum) + 1, Len(line) - 2)
    ELSE SubSeq(line, Len(s_let) + 1, Len(line) - Len(s_eq_any))

\* no two declarations of the block declare the same name
OneDeclarationPerName(block) ==
    \A b1, b2 \in Declarations(block) :
        DeclaredName(LineAt(block, b1)) = DeclaredName(LineAt(block, b2)) => b1 = b2

\* C24: for every context and every combination of the enum flags, no two
\* declarations of the enum block of the output declare the same name
C24_OneDeclarationPerName ==
    \A context \in Contexts : \A o \in EnumOptions :
        OneDeclarationPerName(Generated(Reg, context, o).enums_string)


\* the text declares the interface of the class
DeclaresInterface(text, cls, o) ==
    \E b \in LineStarts(text) :
        \/ OccursAt(text, Header(cls, o), b)
        \/ OccursAt(text, s_export \o Header(cls, o), b)

\* the text names the class in an import line, whatever the origin
Imports(text, cls, o) ==
    \E origin \in Contexts :
        ImportsFrom(text, origin,
                    get_trimmed_name(Classes[cls].name, o.trim_serializer_output))

\* no class is both imported and declared by the text
ImportedOrDeclared(text, o) ==
    \A cls \in DOMAIN exported :
        ~(Imports(text, cls, o) /\ DeclaresInterface(text, cls, o))

\* C25: in every state, for every context and set of options, the file that
\* generate_ts writes names no schema both in an import line and as a
\* declared interface
C25_ImportedOrDeclared ==
    \A context \in Contexts : \A o \in GenOptions :
        ImportedOrDeclared(generate_ts(Reg, context, o).text, o)

=============================================================================
